---- MODULE Spec2Model ----
(***************************************************************************)
(* Model of the optimization engines of OptimizeHub                        *)
(* (backend/app/algorithms): ParticleSwarmOptimization, GeneticAlgorithm,  *)
(* DifferentialEvolution, AntColonyOptimization (ACOR) and                 *)
(* SimulatedAnnealing, all subclasses of OptimizationAlgorithm.            *)
(*                                                                         *)
(* One engine instance is modelled.  The caller-supplied problem and       *)
(* parameter dictionaries are chosen in Init; Construct is __init__,       *)
(* Initialize is initialize(), and optimize() is unfolded into one step    *)
(* per fitness evaluation so that an evaluation error or a timeout can     *)
(* interrupt it where the code can be interrupted.                         *)
(*                                                                         *)
(* Numbers: coordinates, velocities and fitness values are integers (the   *)
(* random draws are restricted to the draws that keep them integral).      *)
(* Rates and weights that the code takes from [0, 1] or (0, 2] are held     *)
(* in tenths (F = 10 is 1.0), ACOR's q in hundredths.  Type checks         *)
(* (isinstance) are not modelled: every value has the type the code wants. *)
(***************************************************************************)
EXTENDS Integers, Sequences, FiniteSets, TLC

VARIABLES
    algo,        \* which engine class is instantiated
    problem,     \* the caller's problem dictionary
    params,      \* the caller's parameter dictionary
    pc,          \* where the instance is: "new", "rejected", "idle", "loop", "eval", "level", "step", "dead"
    err,         \* exception raised by the last call: "none", "ValueError", "RuntimeError", "TypeError"
    initialized, \* the search state has been populated by initialize()
    pop,         \* positions (PSO), population (GA, DE), archive_solutions (ACOR), <<current_solution>> (SA)
    fit,         \* fitness_values (GA, DE), archive_fitness (ACOR), <<current_fitness>> (SA)
    vel,         \* velocities (PSO)
    pbest,       \* personal_best_positions (PSO)
    pbestFit,    \* personal_best_scores (PSO)
    best,        \* best_solution (= global_best_position, best_individual)
    bestFit,     \* global_best_score (PSO), best_fitness (GA, DE, SA), best_solution_fitness (ACOR)
    curve,       \* convergence_curve
    iter,        \* loop variable of optimize(): iteration, generation
    idx,         \* index of the next candidate to evaluate inside an iteration (1-based)
    ants,        \* new_solutions / new_fitness of the running ACOR iteration
    sa,          \* SA: temperature, temperature_history, counters
    expired,     \* the clock has passed start_time + timeout
    result,      \* value returned by the last optimize() (DE: the result dictionary's "iterations")
    calls,       \* number of times the fitness function has been invoked
    hist,        \* bookkeeping for the properties: calls of initialize/optimize, snapshots
    rng,         \* numpy's process-wide generator: the seed given to np.random.seed and the draws made since
    twin         \* seeded runs: the two engine instances living in one process

vars == <<algo, problem, params, pc, err, initialized, pop, fit, vel, pbest, pbestFit,
          best, bestFit, curve, iter, idx, ants, sa, expired, result, calls, hist, rng, twin>>

(***************************************************************************)
(* Bounds of the model.                                                    *)
(***************************************************************************)
\* Number of candidates of a population, swarm or colony that are tracked
\* (two more for DE, whose rand/1 mutation needs three members besides the target).
PopCap == 2
\* Largest number of dimensions whose search is unfolded.
DimCap == 1
\* Largest number of loop iterations that are unfolded.
IterCap == 2
\* Largest magnitude of a Gaussian perturbation.
NoiseMax == 2
\* Calls of initialize() and optimize() the caller makes on one instance.
MaxCalls == 3
\* Calls of initialize() among them; the last of these is the last call unfolded.
MaxInits == 2

(***************************************************************************)
(* Platform constants of the source.                                       *)
(***************************************************************************)
MIN_SWARM_SIZE == 10
MIN_POPULATION_SIZE == 10
MIN_DE_POPULATION_SIZE == 10
MIN_COLONY_SIZE == 5
MAX_ITERATIONS == 100
MAX_DIMENSIONS == 50
MIN_TOURNAMENT_SIZE == 2

None == "None"

Min(a, b) == IF a < b THEN a ELSE b
Max(a, b) == IF a > b THEN a ELSE b

Engines == {"PSO", "GA", "DE", "ACOR", "SA"}

(***************************************************************************)
(* Problem validation (_validate_problem_schema of each class).            *)
(***************************************************************************)
BoundsOk(p) ==
    /\ Len(p.bounds) = p.dimensions
    /\ \A d \in 1..Len(p.bounds) : p.bounds[d][1] < p.bounds[d][2]

\* PSO, GA and ACOR have the same schema check.
Common_validate_problem_schema(p) ==
    /\ p.dimensions > 0
    /\ BoundsOk(p)
    /\ p.callable
    /\ p.objective \in {"minimize", "maximize"}

DE_validate_problem_schema(p) ==
    /\ p.dimensions > 0
    /\ BoundsOk(p)
    /\ p.callable
    /\ p.objective \in {"minimize", "maximize"}

SA_validate_problem_schema(p) ==
    /\ p.dimensions > 0
    /\ ~(p.dimensions > MAX_DIMENSIONS)
    /\ BoundsOk(p)
    /\ p.callable
    /\ p.objective \in {"minimize", "maximize"}

(***************************************************************************)
(* Parameter validation (_validate_parameters of each class).              *)
(***************************************************************************)
PSO_validate_parameters(q) ==
    /\ ~(q.swarm_size < MIN_SWARM_SIZE)
    /\ ~(q.max_iterations < 1)
    /\ ~(q.max_iterations > MAX_ITERATIONS)
    /\ ~(q.c1 = 0 /\ q.c2 = 0)

GA_validate_parameters(q) ==
    /\ ~(q.population_size < MIN_POPULATION_SIZE)
    /\ ~(q.max_iterations < 1)
    /\ ~(q.max_iterations > MAX_ITERATIONS)
    /\ 0 <= q.crossover_rate /\ q.crossover_rate <= 10
    /\ 0 <= q.mutation_rate /\ q.mutation_rate <= 10
    /\ ~(q.tournament_size < MIN_TOURNAMENT_SIZE)
    /\ ~(q.tournament_size > q.population_size)

DE_validate_parameters(q) ==
    /\ ~(q.population_size < MIN_DE_POPULATION_SIZE)
    /\ ~(q.max_iterations < 1)
    /\ 0 < q.F /\ q.F <= 20
    /\ 0 <= q.CR /\ q.CR <= 10
    /\ q.strategy \in {"rand/1/bin", "best/1/bin", "rand/2/bin"}
    /\ q.boundary_handling \in {"clip", "reflect", "wrap"}
    /\ ~(q.timeout <= 0)

ACOR_validate_parameters(q) ==
    /\ ~(q.colony_size < MIN_COLONY_SIZE)
    /\ ~(q.max_iterations < 1)
    /\ ~(q.max_iterations > MAX_ITERATIONS)
    /\ ~(q.archive_size < 1)
    /\ ~(q.archive_size > q.colony_size)
    /\ ~(q.q <= 0)
    /\ 0 < q.xi /\ q.xi <= 10

SA_validate_parameters(q) ==
    /\ ~(q.initial_temp <= 0)
    /\ ~(q.final_temp <= 0)
    /\ ~(q.initial_temp <= q.final_temp)
    /\ (q.cooling_schedule = "geometric" => ~(q.cooling_rate <= 0 \/ q.cooling_rate >= 10))
    /\ ~(q.max_iterations < 1)
    /\ ~(q.max_iterations > MAX_ITERATIONS)
    /\ ~(q.neighbor_std <= 0)
    /\ ~(q.neighbor_std > 10)
    /\ q.cooling_schedule \in {"geometric", "linear", "logarithmic"}

\* What __init__ of each class checks before the object exists.
ConstructorAccepts(a, p, q) ==
    CASE a = "PSO"  -> Common_validate_problem_schema(p) /\ PSO_validate_parameters(q)
      [] a = "GA"   -> Common_validate_problem_schema(p) /\ GA_validate_parameters(q)
      [] a = "DE"   -> DE_validate_problem_schema(p) /\ DE_validate_parameters(q)
      [] a = "ACOR" -> Common_validate_problem_schema(p) /\ ACOR_validate_parameters(q)
      [] a = "SA"   -> SA_validate_problem_schema(p)

\* What initialize() checks before it touches the search state.
InitializeAccepts(a, q) ==
    IF a = "SA" THEN SA_validate_parameters(q) ELSE TRUE

(***************************************************************************)
(* Vectors, bounds and the objective.                                      *)
(***************************************************************************)
Lower(p, d) == p.bounds[d][1]
Upper(p, d) == p.bounds[d][2]
Dims(p) == 1..p.dimensions

\* np.clip(v, lo, hi) = minimum(maximum(v, lo), hi)
Clip(v, lo, hi) == Min(Max(v, lo), hi)

\* A mutation of ApplyBounds: the candidate is left where the move put it.
ApplyBoundsSkipped(p, x) == x

\* _apply_bounds of PSO, GA and ACOR, and the clipping of SA's neighbour.
ApplyBounds(p, x) == [d \in Dims(p) |-> Clip(x[d], Lower(p, d), Upper(p, d))]

InBounds(p, x) == \A d \in Dims(p) : Lower(p, d) <= x[d] /\ x[d] <= Upper(p, d)

\* A mutation of IsBetter: the comparison runs against the objective.
IsBetterReversed(obj, new, old) == IF obj = "minimize" THEN new > old ELSE new < old

\* _is_better: strict comparison in the direction of the objective.
IsBetter(obj, new, old) == IF obj = "minimize" THEN new < old ELSE new > old

\* A mutation of ArgBest: the first index, whatever the values.
ArgBestFirst(obj, f) == 1

\* np.argmin / np.argmax: the first index holding the extreme value.
ArgBest(obj, f) ==
    CHOOSE i \in 1..Len(f) :
        /\ \A j \in 1..Len(f) : ~IsBetter(obj, f[j], f[i])
        /\ \A j \in 1..(i - 1) : IsBetter(obj, f[i], f[j])

RECURSIVE SumSq(_)
SumSq(x) == IF x = <<>> THEN 0 ELSE x[1] * x[1] + SumSq(Tail(x))

(***************************************************************************)
(* The caller's fitness function and _evaluate.                            *)
(* "sphere" is problem_functions.sphere; "sphere_far_bad" is a user        *)
(* function that is the sphere near the origin and fails far from it;      *)
(* "constant" is a user function that returns 7 everywhere.                *)
(***************************************************************************)
FitnessFunction(fn, x) ==
    CASE fn = "sphere" -> [kind |-> "number", val |-> SumSq(x)]
      [] fn = "constant" -> [kind |-> "number", val |-> 7]
      [] fn = "sphere_far_bad" ->
            IF SumSq(x) < 4 THEN [kind |-> "number", val |-> SumSq(x)]
            ELSE IF x[1] > 0 THEN [kind |-> "nan", val |-> 0]
            ELSE [kind |-> "raises", val |-> 0]

\* A mutation of Evaluate: a failed evaluation is replaced by a penalty value.
EvaluateSubstituting(fn, x) ==
    LET r == FitnessFunction(fn, x)
    IN IF r.kind = "number" THEN [ok |-> TRUE, val |-> r.val]
       ELSE [ok |-> TRUE, val |-> 9]

\* _evaluate: the value, or RuntimeError for anything that is not a finite number.
Evaluate(fn, x) ==
    LET r == FitnessFunction(fn, x)
    IN IF r.kind = "number" THEN [ok |-> TRUE, val |-> r.val]
       ELSE [ok |-> FALSE, val |-> 0]

\* The list comprehension [self._evaluate(c) for c in xs]: the number of calls
\* it makes is the index of the first failing candidate, or len(xs).
FirstBad(fn, xs) ==
    IF \E i \in 1..Len(xs) : ~Evaluate(fn, xs[i]).ok
    THEN CHOOSE i \in 1..Len(xs) :
            /\ ~Evaluate(fn, xs[i]).ok
            /\ \A j \in 1..(i - 1) : Evaluate(fn, xs[j]).ok
    ELSE 0

EvaluateAll(fn, xs) == [i \in 1..Len(xs) |-> Evaluate(fn, xs[i]).val]

(***************************************************************************)
(* Random draws, restricted to integers.                                   *)
(***************************************************************************)
\* np.random.uniform(lo, hi): a value of [lo, hi).
UniformDraws(lo, hi) == {lo, (lo + hi) \div 2, hi - 1}

\* Integer values of np.random.uniform(-r, r) with r = (hi - lo) * 0.1.
VelocityDraws(lo, hi) == {v \in (lo - hi)..(hi - lo) : 0 - (hi - lo) <= 10 * v /\ 10 * v < hi - lo}

\* Integer values of c * np.random.random() for an integer coefficient c.
RandomTimes(c) == IF c > 0 THEN 0..(c - 1) ELSE IF c < 0 THEN (c + 1)..0 ELSE {0}

\* Gaussian noise np.random.normal(0, sigma): 0 when sigma is 0.
NormalDraws(sigmaPositive) == IF sigmaPositive THEN (0 - NoiseMax)..NoiseMax ELSE {0}

RandomVectors(p) == [Dims(p) -> UNION {UniformDraws(Lower(p, d), Upper(p, d)) : d \in Dims(p)}]

\* A vector with every coordinate drawn uniformly inside its bound.
UniformVectors(p) == {x \in RandomVectors(p) : \A d \in Dims(p) : x[d] \in UniformDraws(Lower(p, d), Upper(p, d))}

(***************************************************************************)
(* Number of candidates the model tracks for an engine.                    *)
(***************************************************************************)
Tracked(a, q) ==
    CASE a = "PSO"  -> Min(q.swarm_size, PopCap)
      [] a = "GA"   -> Min(q.population_size, PopCap)
      [] a = "DE"   -> Min(q.population_size, PopCap + 2)
      [] a = "ACOR" -> Min(q.archive_size, PopCap)
      [] a = "SA"   -> 1

\* Number of ants of one ACOR iteration that the model tracks.
Colony(q) == Min(q.colony_size, PopCap)

(***************************************************************************)
(* The problems and parameter sets the caller supplies.                    *)
(***************************************************************************)
Problem(obj, fn) ==
    [dimensions |-> 1, bounds |-> << <<-2, 2>> >>, objective |-> obj, fn |-> fn, callable |-> TRUE]

GoodProblems ==
    {Problem("minimize", "sphere"), Problem("maximize", "sphere"), Problem("minimize", "sphere_far_bad")}

BadProblems ==
    { [Problem("minimize", "sphere") EXCEPT !.dimensions = 0, !.bounds = <<>>],
      [Problem("minimize", "sphere") EXCEPT !.dimensions = 2],
      [Problem("minimize", "sphere") EXCEPT !.bounds = << <<2, 2>> >>],
      [Problem("minimize", "sphere") EXCEPT !.objective = "fastest"],
      [Problem("minimize", "sphere") EXCEPT !.callable = FALSE] }

\* More dimensions than the platform ceiling of 50.
WideProblem ==
    [Problem("minimize", "sphere") EXCEPT !.dimensions = MAX_DIMENSIONS + 1,
                                          !.bounds = [d \in 1..(MAX_DIMENSIONS + 1) |-> <<-2, 2>>]]

DefaultParams(a) ==
    CASE a = "PSO"  -> [swarm_size |-> 10, max_iterations |-> 2, w |-> 1, c1 |-> 2, c2 |-> 2]
      [] a = "GA"   -> [population_size |-> 10, max_iterations |-> 2, crossover_rate |-> 5,
                        mutation_rate |-> 5, tournament_size |-> 2]
      [] a = "DE"   -> [population_size |-> 10, max_iterations |-> 1, F |-> 10, CR |-> 5,
                        strategy |-> "rand/1/bin", boundary_handling |-> "clip", timeout |-> 30]
      [] a = "ACOR" -> [colony_size |-> 5, max_iterations |-> 2, archive_size |-> 2, q |-> 100, xi |-> 10]
      [] a = "SA"   -> [initial_temp |-> 400, final_temp |-> 100, cooling_rate |-> 5, max_iterations |-> 2,
                        neighbor_std |-> 1, cooling_schedule |-> "geometric"]

\* Other parameter sets that validation accepts.
OtherParams(a) ==
    CASE a = "PSO"  -> {[DefaultParams(a) EXCEPT !.w = 0, !.c1 = 0, !.max_iterations = 1],
                        [DefaultParams(a) EXCEPT !.w = 2, !.c1 = 0, !.max_iterations = 1]}
      [] a = "GA"   -> {[DefaultParams(a) EXCEPT !.crossover_rate = 10, !.mutation_rate = 0]}
      [] a = "DE"   -> {[DefaultParams(a) EXCEPT !.strategy = "best/1/bin", !.boundary_handling = "reflect", !.F = 20],
                        [DefaultParams(a) EXCEPT !.boundary_handling = "wrap", !.CR = 0],
                        [DefaultParams(a) EXCEPT !.boundary_handling = "reflect", !.F = 20, !.CR = 10]}
      [] a = "ACOR" -> {[DefaultParams(a) EXCEPT !.archive_size = 1, !.q = 1]}
      [] a = "SA"   -> {[DefaultParams(a) EXCEPT !.max_iterations = 1, !.cooling_schedule = "logarithmic"],
                        \* the two least temperatures of the grid: the cooled value rounds to zero,
                        \* as 1e-323 * 0.1 does in a double
                        [DefaultParams(a) EXCEPT !.initial_temp = 2, !.final_temp = 1, !.cooling_rate = 1,
                                                 !.max_iterations = 1]}

\* Parameter sets outside the documented ranges.
OutOfRangeParams(a) ==
    CASE a = "PSO"  -> {[DefaultParams(a) EXCEPT !.swarm_size = 5],
                        [DefaultParams(a) EXCEPT !.c1 = 0, !.c2 = 0],
                        [DefaultParams(a) EXCEPT !.max_iterations = 0],
                        [DefaultParams(a) EXCEPT !.max_iterations = MAX_ITERATIONS + 1]}
      [] a = "GA"   -> {[DefaultParams(a) EXCEPT !.population_size = 9],
                        [DefaultParams(a) EXCEPT !.crossover_rate = 11],
                        [DefaultParams(a) EXCEPT !.mutation_rate = -1],
                        [DefaultParams(a) EXCEPT !.tournament_size = 1],
                        [DefaultParams(a) EXCEPT !.tournament_size = 11],
                        [DefaultParams(a) EXCEPT !.max_iterations = MAX_ITERATIONS + 1]}
      [] a = "DE"   -> {[DefaultParams(a) EXCEPT !.population_size = 9],
                        [DefaultParams(a) EXCEPT !.F = 25],
                        [DefaultParams(a) EXCEPT !.F = 0],
                        [DefaultParams(a) EXCEPT !.CR = 11],
                        [DefaultParams(a) EXCEPT !.strategy = "rand/3/bin"],
                        [DefaultParams(a) EXCEPT !.boundary_handling = "bounce"],
                        [DefaultParams(a) EXCEPT !.timeout = 0],
                        [DefaultParams(a) EXCEPT !.max_iterations = 0],
                        [DefaultParams(a) EXCEPT !.max_iterations = MAX_ITERATIONS + 1]}
      [] a = "ACOR" -> {[DefaultParams(a) EXCEPT !.colony_size = 4],
                        [DefaultParams(a) EXCEPT !.archive_size = 0],
                        [DefaultParams(a) EXCEPT !.archive_size = 6],
                        [DefaultParams(a) EXCEPT !.q = 0],
                        [DefaultParams(a) EXCEPT !.xi = 0],
                        [DefaultParams(a) EXCEPT !.xi = 11],
                        [DefaultParams(a) EXCEPT !.max_iterations = MAX_ITERATIONS + 1]}
      [] a = "SA"   -> {[DefaultParams(a) EXCEPT !.initial_temp = 100],
                        [DefaultParams(a) EXCEPT !.initial_temp = 50],
                        [DefaultParams(a) EXCEPT !.final_temp = 0],
                        [DefaultParams(a) EXCEPT !.cooling_rate = 10],
                        [DefaultParams(a) EXCEPT !.neighbor_std = 0],
                        [DefaultParams(a) EXCEPT !.neighbor_std = 11],
                        [DefaultParams(a) EXCEPT !.cooling_schedule = "quadratic"],
                        [DefaultParams(a) EXCEPT !.max_iterations = MAX_ITERATIONS + 1]}

\* PSO on a fitness function that returns the same value everywhere.
ConstantConfigurations ==
    {<<"PSO", Problem(obj, "constant"), DefaultParams("PSO")>> : obj \in {"minimize", "maximize"}}

Configurations ==
    ConstantConfigurations \cup
    UNION { ({a} \X GoodProblems \X {DefaultParams(a)})
            \cup ({a} \X {Problem("minimize", "sphere")} \X OtherParams(a))
            \cup ({a} \X (BadProblems \cup {WideProblem}) \X {DefaultParams(a)})
            \cup ({a} \X {Problem("minimize", "sphere_far_bad")} \X OutOfRangeParams(a)) : a \in Engines }

(***************************************************************************)
(* Bookkeeping used by the properties.                                     *)
(***************************************************************************)
NoSnapshot == [seen |-> FALSE, calls |-> 0, len |-> 0, best |-> <<>>]

Snapshot(n, c, b) == [seen |-> TRUE, calls |-> n, len |-> Len(c), best |-> b]

\* The fitness function's own outcome, as the caller's function produced it.
IsNumber(fn, x) == FitnessFunction(fn, x).kind = "number"

\* Index of the first of the invocations 1..n on xs that did not return a number, or 0.
FirstNonNumber(fn, xs, n) ==
    IF \E i \in 1..n : ~IsNumber(fn, xs[i])
    THEN CHOOSE i \in 1..n : ~IsNumber(fn, xs[i]) /\ \A j \in 1..(i - 1) : IsNumber(fn, xs[j])
    ELSE 0

\* hist.bad after the invocations 1..n on xs.
NoteBad(fn, xs, n) ==
    IF hist.bad.seen \/ FirstNonNumber(fn, xs, n) = 0 THEN hist.bad
    ELSE Snapshot(calls + FirstNonNumber(fn, xs, n), curve, best)

(***************************************************************************)
(* Initial state: nothing constructed yet.                                 *)
(***************************************************************************)
Init ==
    /\ \E c \in Configurations : algo = c[1] /\ problem = c[2] /\ params = c[3]
    /\ pc = "new"
    /\ err = "none"
    /\ initialized = FALSE
    /\ pop = None /\ fit = None /\ vel = None /\ pbest = None /\ pbestFit = None
    /\ best = None /\ bestFit = None
    /\ curve = <<>>
    /\ iter = 0 /\ idx = 0
    /\ ants = <<>>
    /\ sa = [temperature |-> None, temperature_history |-> <<>>, acceptance_count |-> 0,
             total_worse_attempts |-> 0, acceptance_rate |-> <<0, 1>>, iteration_counter |-> 0]
    /\ expired = FALSE
    /\ result = None
    /\ calls = 0
    /\ hist = [inits |-> 0, opts |-> 0, last |-> "none", bad |-> NoSnapshot, tmo |-> NoSnapshot]
    /\ rng = [seed |-> 0, pos |-> 0]
    /\ twin = <<>>

searchVars == <<pop, fit, vel, pbest, pbestFit, best, bestFit, curve, iter, idx, ants, sa, expired, result, calls>>

(***************************************************************************)
(* __init__: validation, then the attributes are set.                      *)
(***************************************************************************)
\* A mutation of Construct: the constructor writes the clamped max_iterations back
\* into the dictionary it was given.
ConstructNormalising ==
    /\ pc = "new"
    /\ IF ConstructorAccepts(algo, problem, params)
       THEN pc' = "idle" /\ err' = "none"
       ELSE pc' = "rejected" /\ err' = "ValueError"
    /\ params' = [params EXCEPT !.max_iterations = Min(@, MAX_ITERATIONS)]
    /\ UNCHANGED <<algo, problem, initialized, hist>>
    /\ UNCHANGED searchVars
    /\ UNCHANGED <<rng, twin>>

Construct ==
    /\ pc = "new"
    /\ IF ConstructorAccepts(algo, problem, params)
       THEN pc' = "idle" /\ err' = "none"
       ELSE pc' = "rejected" /\ err' = "ValueError"
    /\ UNCHANGED <<algo, problem, params, initialized, hist>>
    /\ UNCHANGED searchVars
    /\ UNCHANGED <<rng, twin>>

(***************************************************************************)
(* initialize() of each engine.  The candidates are drawn, then evaluated  *)
(* in order; the first evaluation that fails raises RuntimeError out of    *)
(* initialize() and leaves the attributes assigned so far.                 *)
(***************************************************************************)
CanInitialize(a) ==
    /\ pc = "idle"
    /\ algo = a
    /\ hist.inits + hist.opts < MaxCalls
    /\ hist.inits < MaxInits
    /\ problem.dimensions <= DimCap

Populations(n) == [1..n -> UniformVectors(problem)]

PSOInitialize ==
    /\ CanInitialize("PSO")
    /\ \E xs \in Populations(Tracked(algo, params)) :
       \E vs \in [1..Tracked(algo, params) ->
                    [Dims(problem) -> UNION {VelocityDraws(Lower(problem, d), Upper(problem, d)) : d \in Dims(problem)}]] :
        LET bad == FirstBad(problem.fn, xs)
            n == IF bad = 0 THEN Len(xs) ELSE bad
            scores == EvaluateAll(problem.fn, xs)
            best_idx == ArgBest(problem.objective, scores)
        IN /\ \A i \in 1..Len(vs) : \A d \in Dims(problem) :
                    vs[i][d] \in VelocityDraws(Lower(problem, d), Upper(problem, d))
           /\ pop' = xs
           /\ vel' = vs
           /\ pbest' = xs
           /\ calls' = calls + n
           /\ hist' = [hist EXCEPT !.inits = @ + 1, !.last = "initialize", !.bad = NoteBad(problem.fn, xs, n), !.tmo = NoSnapshot]
           /\ IF bad = 0
              THEN /\ pbestFit' = scores
                   /\ best' = xs[best_idx]
                   /\ bestFit' = scores[best_idx]
                   /\ curve' = Append(curve, scores[best_idx])
                   /\ initialized' = TRUE
                   /\ pc' = "idle" /\ err' = "none"
              ELSE /\ pc' = "dead" /\ err' = "RuntimeError"
                   /\ UNCHANGED <<pbestFit, best, bestFit, curve, initialized>>
    /\ UNCHANGED <<algo, problem, params, fit, iter, idx, ants, sa, expired, result>>
    /\ UNCHANGED <<rng, twin>>

GAInitialize ==
    /\ CanInitialize("GA")
    /\ \E xs \in Populations(Tracked(algo, params)) :
        LET bad == FirstBad(problem.fn, xs)
            n == IF bad = 0 THEN Len(xs) ELSE bad
            values == EvaluateAll(problem.fn, xs)
            best_idx == ArgBest(problem.objective, values)
        IN /\ pop' = xs
           /\ calls' = calls + n
           /\ hist' = [hist EXCEPT !.inits = @ + 1, !.last = "initialize", !.bad = NoteBad(problem.fn, xs, n), !.tmo = NoSnapshot]
           /\ IF bad = 0
              THEN /\ fit' = values
                   /\ best' = xs[best_idx]
                   /\ bestFit' = values[best_idx]
                   /\ curve' = Append(curve, values[best_idx])
                   /\ initialized' = TRUE
                   /\ pc' = "idle" /\ err' = "none"
              ELSE /\ pc' = "dead" /\ err' = "RuntimeError"
                   /\ UNCHANGED <<fit, best, bestFit, curve, initialized>>
    /\ UNCHANGED <<algo, problem, params, vel, pbest, pbestFit, iter, idx, ants, sa, expired, result>>
    /\ UNCHANGED <<rng, twin>>

\* The body of DifferentialEvolution.initialize, on the drawn population xs;
\* next is where control goes when it succeeds.
DEInitializeWith(xs, next) ==
    LET bad == FirstBad(problem.fn, xs)
        n == IF bad = 0 THEN Len(xs) ELSE bad
        values == EvaluateAll(problem.fn, xs)
        best_idx == ArgBest(problem.objective, values)
    IN /\ pop' = xs
       /\ calls' = calls + n
       /\ IF bad = 0
          THEN /\ fit' = values
               /\ best' = xs[best_idx]
               /\ bestFit' = values[best_idx]
               /\ curve' = <<values[best_idx]>>
               /\ initialized' = TRUE
               /\ expired' = FALSE
               /\ pc' = next /\ err' = "none"
          ELSE /\ pc' = "dead" /\ err' = "RuntimeError"
               /\ UNCHANGED <<fit, best, bestFit, curve, initialized, expired>>

DEInitialize ==
    /\ CanInitialize("DE")
    /\ \E xs \in Populations(Tracked(algo, params)) :
        /\ DEInitializeWith(xs, "idle")
        /\ hist' = [hist EXCEPT !.inits = @ + 1, !.last = "initialize",
                                !.bad = NoteBad(problem.fn, xs, IF FirstBad(problem.fn, xs) = 0 THEN Len(xs)
                                                                 ELSE FirstBad(problem.fn, xs)),
                                !.tmo = NoSnapshot]
    /\ UNCHANGED <<algo, problem, params, vel, pbest, pbestFit, iter, idx, ants, sa, result>>
    /\ UNCHANGED <<rng, twin>>

\* np.argsort on a short array: ascending, equal values in index order.
ArgSort(f) ==
    LET Pos(i) == 1 + Cardinality({j \in 1..Len(f) : f[j] < f[i] \/ (f[j] = f[i] /\ j < i)})
    IN [k \in 1..Len(f) |-> CHOOSE i \in 1..Len(f) : Pos(i) = k]

\* A mutation of GetSortedIndices: ascending whatever the objective.
GetSortedIndicesAscending(obj, f) == ArgSort(f)

\* _get_sorted_indices: best first; for "maximize" the ascending order reversed.
GetSortedIndices(obj, f) ==
    IF obj = "minimize" THEN ArgSort(f)
    ELSE [k \in 1..Len(f) |-> ArgSort(f)[Len(f) + 1 - k]]

Permute(xs, order) == [k \in 1..Len(order) |-> xs[order[k]]]

ACORInitialize ==
    /\ CanInitialize("ACOR")
    /\ \E xs \in Populations(Tracked(algo, params)) :
        LET bad == FirstBad(problem.fn, xs)
            n == IF bad = 0 THEN Len(xs) ELSE bad
            values == EvaluateAll(problem.fn, xs)
            sorted_indices == GetSortedIndices(problem.objective, values)
        IN /\ calls' = calls + n
           /\ hist' = [hist EXCEPT !.inits = @ + 1, !.last = "initialize", !.bad = NoteBad(problem.fn, xs, n), !.tmo = NoSnapshot]
           /\ IF bad = 0
              THEN /\ pop' = Permute(xs, sorted_indices)
                   /\ fit' = Permute(values, sorted_indices)
                   /\ best' = xs[sorted_indices[1]]
                   /\ bestFit' = values[sorted_indices[1]]
                   /\ curve' = Append(curve, values[sorted_indices[1]])
                   /\ initialized' = TRUE
                   /\ pc' = "idle" /\ err' = "none"
              ELSE /\ pop' = xs
                   /\ pc' = "dead" /\ err' = "RuntimeError"
                   /\ UNCHANGED <<fit, best, bestFit, curve, initialized>>
    /\ UNCHANGED <<algo, problem, params, vel, pbest, pbestFit, iter, idx, ants, sa, expired, result>>
    /\ UNCHANGED <<rng, twin>>

\* A mutation of SAInitializeRejected: the start point is drawn and evaluated
\* before the parameters are validated.
SAInitializeRejectedLate ==
    /\ pc' = "dead" /\ err' = "ValueError"
    /\ calls' = calls + 1

\* "self._validate_parameters()" is the first statement of SA's initialize():
\* it raises ValueError before the start point is drawn or evaluated.
SAInitializeRejected ==
    /\ pc' = "dead" /\ err' = "ValueError"
    /\ calls' = calls

SAInitialize ==
    /\ CanInitialize("SA")
    /\ IF ~InitializeAccepts(algo, params)
       THEN /\ SAInitializeRejected
            /\ hist' = [hist EXCEPT !.inits = @ + 1, !.last = "initialize", !.tmo = NoSnapshot]
            /\ UNCHANGED <<pop, fit, best, bestFit, curve, initialized, sa>>
       ELSE \E x \in UniformVectors(problem) :
            LET e == Evaluate(problem.fn, x)
            IN /\ pop' = <<x>>
               /\ calls' = calls + 1
               /\ hist' = [hist EXCEPT !.inits = @ + 1, !.last = "initialize", !.bad = NoteBad(problem.fn, <<x>>, 1), !.tmo = NoSnapshot]
               /\ IF e.ok
                  THEN /\ fit' = <<e.val>>
                       /\ best' = x
                       /\ bestFit' = e.val
                       /\ curve' = Append(curve, e.val)
                       /\ sa' = [sa EXCEPT !.temperature = params.initial_temp,
                                           !.temperature_history = <<params.initial_temp>>,
                                           !.acceptance_count = 0,
                                           !.total_worse_attempts = 0]
                       /\ initialized' = TRUE
                       /\ pc' = "idle" /\ err' = "none"
                  ELSE /\ sa' = [sa EXCEPT !.temperature = params.initial_temp,
                                           !.temperature_history = <<params.initial_temp>>]
                       /\ pc' = "dead" /\ err' = "RuntimeError"
                       /\ UNCHANGED <<fit, best, bestFit, curve, initialized>>
    /\ UNCHANGED <<algo, problem, params, vel, pbest, pbestFit, iter, idx, ants, expired, result>>
    /\ UNCHANGED <<rng, twin>>

(***************************************************************************)
(* optimize(): entry, the timeout check at the top of an iteration, and    *)
(* the end of the for loop (PSO, GA, DE, ACOR).                            *)
(***************************************************************************)
\* Reading the clock: once past the deadline it stays past it.
ClockReads == IF expired THEN {TRUE} ELSE {TRUE, FALSE}

\* optimize() on an instance whose search state is still None fails on the
\* first subscript of None (Python's TypeError) before any evaluation;
\* DifferentialEvolution.optimize calls initialize() itself instead.
OptimizeCall ==
    /\ pc = "idle"
    /\ hist.inits + hist.opts < MaxCalls
    /\ hist.inits < MaxInits
    /\ problem.dimensions <= DimCap
    /\ IF ~initialized /\ algo # "DE"
       THEN /\ pc' = "dead" /\ err' = "TypeError"
            /\ hist' = [hist EXCEPT !.opts = @ + 1, !.last = "optimize", !.tmo = NoSnapshot]
            /\ UNCHANGED <<pop, fit, best, bestFit, curve, initialized, expired, calls, iter, sa>>
       ELSE IF ~initialized
       THEN \E xs \in Populations(Tracked(algo, params)) :
            /\ DEInitializeWith(xs, "loop")
            /\ iter' = 0
            /\ hist' = [hist EXCEPT !.opts = @ + 1, !.last = "optimize",
                                    !.bad = NoteBad(problem.fn, xs, IF FirstBad(problem.fn, xs) = 0 THEN Len(xs)
                                                                     ELSE FirstBad(problem.fn, xs)),
                                    !.tmo = NoSnapshot]
            /\ UNCHANGED sa
       ELSE /\ expired' = FALSE
            /\ iter' = 0
            /\ sa' = [sa EXCEPT !.iteration_counter = 0]
            /\ pc' = IF algo = "SA" THEN "level" ELSE "loop"
            /\ err' = "none"
            /\ hist' = [hist EXCEPT !.opts = @ + 1, !.last = "optimize", !.tmo = NoSnapshot]
            /\ UNCHANGED <<pop, fit, best, bestFit, curve, initialized, calls>>
    /\ UNCHANGED <<algo, problem, params, vel, pbest, pbestFit, idx, ants, result>>
    /\ UNCHANGED <<rng, twin>>

\* Value of DE's "iteration + 1 if 'iteration' in locals() else 0" when the loop
\* is left with the loop variable at index i (0-based).
DEReturnedIterations(i) == i + 1

\* A mutation of TimeoutBreak: the expiry is seen but the loop is not left.
TimeoutBreakMissing ==
    /\ pc = "loop"
    /\ iter < params.max_iterations
    /\ TRUE \in ClockReads
    /\ expired' = FALSE
    /\ pc' = "loop"
    /\ result' = result
    /\ hist' = [hist EXCEPT !.tmo = Snapshot(calls, curve, best)]
    /\ UNCHANGED <<algo, problem, params, err, initialized, pop, fit, vel, pbest, pbestFit,
                   best, bestFit, curve, iter, idx, ants, sa, calls>>
    /\ UNCHANGED <<rng, twin>>

\* "if time.time() - self.start_time > self.timeout: break" fires at the top of
\* iteration iter (0-based): optimize() returns.
TimeoutBreak ==
    /\ pc = "loop"
    /\ iter < params.max_iterations
    /\ TRUE \in ClockReads
    /\ expired' = TRUE
    /\ pc' = "idle"
    /\ result' = IF algo = "DE" THEN DEReturnedIterations(iter) ELSE None
    /\ hist' = [hist EXCEPT !.tmo = Snapshot(calls, curve, best)]
    /\ UNCHANGED <<algo, problem, params, err, initialized, pop, fit, vel, pbest, pbestFit,
                   best, bestFit, curve, iter, idx, ants, sa, calls>>
    /\ UNCHANGED <<rng, twin>>

\* A mutation of LoopExit: the loop is left before range(max_iterations) is used up.
LoopExitEarly ==
    /\ pc = "loop"
    /\ iter < params.max_iterations
    /\ pc' = "idle"
    /\ result' = IF algo = "DE" THEN DEReturnedIterations(iter - 1) ELSE None
    /\ UNCHANGED <<algo, problem, params, err, initialized, pop, fit, vel, pbest, pbestFit,
                   best, bestFit, curve, iter, idx, ants, sa, expired, calls, hist>>
    /\ UNCHANGED <<rng, twin>>

\* range(max_iterations) is exhausted: optimize() returns.
LoopExit ==
    /\ pc = "loop"
    /\ iter = params.max_iterations
    /\ pc' = "idle"
    /\ result' = IF algo = "DE" THEN DEReturnedIterations(iter - 1) ELSE None
    /\ UNCHANGED <<algo, problem, params, err, initialized, pop, fit, vel, pbest, pbestFit,
                   best, bestFit, curve, iter, idx, ants, sa, expired, calls, hist>>
    /\ UNCHANGED <<rng, twin>>

\* The timeout check at the top of an iteration lets the body run.
BodyRuns(a) ==
    /\ pc = "loop"
    /\ algo = a
    /\ iter < params.max_iterations
    /\ iter < IterCap
    /\ FALSE \in ClockReads

\* A fitness evaluation failed inside optimize(): RuntimeError leaves the call.
Raise ==
    /\ pc' = "dead"
    /\ err' = "RuntimeError"

(***************************************************************************)
(* PSO: one iteration moves every particle, then evaluates them in order.  *)
(***************************************************************************)
Coefficients(c) == [1..Tracked(algo, params) -> [Dims(problem) -> RandomTimes(c)]]

PSOMove ==
    /\ BodyRuns("PSO")
    /\ \E r1 \in Coefficients(params.c1) : \E r2 \in Coefficients(params.c2) :
        LET velocity(i) == [d \in Dims(problem) |->
                                params.w * vel[i][d]
                                + r1[i][d] * (pbest[i][d] - pop[i][d])
                                + r2[i][d] * (best[d] - pop[i][d])]
            position(i) == [d \in Dims(problem) |-> pop[i][d] + velocity(i)[d]]
        IN /\ vel' = [i \in 1..Len(pop) |-> velocity(i)]
           /\ pop' = [i \in 1..Len(pop) |-> ApplyBounds(problem, position(i))]
    /\ pc' = "eval"
    /\ idx' = 1
    /\ UNCHANGED <<algo, problem, params, err, initialized, fit, pbest, pbestFit,
                   best, bestFit, curve, iter, ants, sa, expired, result, calls, hist>>
    /\ UNCHANGED <<rng, twin>>

\* A mutation of PSOEvaluate: a candidate that ties with the stored best replaces it.
PSOEvaluateOnTies ==
    /\ pc = "eval"
    /\ algo = "PSO"
    /\ LET e == Evaluate(problem.fn, pop[idx])
           personal == e.ok /\ ~IsBetter(problem.objective, pbestFit[idx], e.val)
           global == personal /\ ~IsBetter(problem.objective, bestFit, e.val)
           score == IF global THEN e.val ELSE bestFit
       IN /\ calls' = calls + 1
          /\ hist' = [hist EXCEPT !.bad = NoteBad(problem.fn, <<pop[idx]>>, 1)]
          /\ IF ~e.ok
             THEN /\ Raise
                  /\ UNCHANGED <<pbest, pbestFit, best, bestFit, curve, iter, idx>>
             ELSE /\ pbest' = IF personal THEN [pbest EXCEPT ![idx] = pop[idx]] ELSE pbest
                  /\ pbestFit' = IF personal THEN [pbestFit EXCEPT ![idx] = e.val] ELSE pbestFit
                  /\ best' = IF global THEN pop[idx] ELSE best
                  /\ bestFit' = score
                  /\ IF idx = Len(pop)
                     THEN /\ curve' = Append(curve, score)
                          /\ iter' = iter + 1
                          /\ idx' = 0
                          /\ pc' = "loop"
                     ELSE /\ idx' = idx + 1
                          /\ UNCHANGED <<curve, iter, pc>>
                  /\ err' = err
    /\ UNCHANGED <<algo, problem, params, initialized, pop, fit, vel, ants, sa, expired, result>>
    /\ UNCHANGED <<rng, twin>>

PSOEvaluate ==
    /\ pc = "eval"
    /\ algo = "PSO"
    /\ LET e == Evaluate(problem.fn, pop[idx])
           personal == e.ok /\ IsBetter(problem.objective, e.val, pbestFit[idx])
           global == personal /\ IsBetter(problem.objective, e.val, bestFit)
           score == IF global THEN e.val ELSE bestFit
       IN /\ calls' = calls + 1
          /\ hist' = [hist EXCEPT !.bad = NoteBad(problem.fn, <<pop[idx]>>, 1)]
          /\ IF ~e.ok
             THEN /\ Raise
                  /\ UNCHANGED <<pbest, pbestFit, best, bestFit, curve, iter, idx>>
             ELSE /\ pbest' = IF personal THEN [pbest EXCEPT ![idx] = pop[idx]] ELSE pbest
                  /\ pbestFit' = IF personal THEN [pbestFit EXCEPT ![idx] = e.val] ELSE pbestFit
                  /\ best' = IF global THEN pop[idx] ELSE best
                  /\ bestFit' = score
                  /\ IF idx = Len(pop)
                     THEN /\ curve' = Append(curve, score)
                          /\ iter' = iter + 1
                          /\ idx' = 0
                          /\ pc' = "loop"
                     ELSE /\ idx' = idx + 1
                          /\ UNCHANGED <<curve, iter, pc>>
                  /\ err' = err
    /\ UNCHANGED <<algo, problem, params, initialized, pop, fit, vel, ants, sa, expired, result>>
    /\ UNCHANGED <<rng, twin>>

(***************************************************************************)
(* GA: tournament selection, SBX crossover, polynomial mutation.           *)
(***************************************************************************)
\* _tournament_selection: tournament_size distinct indices; the winner is the
\* first best of them in the order drawn, so any of their best can win.
TournamentWinners ==
    LET k == Min(params.tournament_size, Len(pop))
    IN {w \in 1..Len(pop) :
            \E S \in SUBSET (1..Len(pop)) :
                /\ Cardinality(S) = k
                /\ w \in S
                /\ \A j \in S : ~IsBetter(problem.objective, fit[j], fit[w])}

\* Integer values of the SBX spread factor beta that keep the children integral.
BetaDraws == {1, 3}

\* One gene of _simulated_binary_crossover: <<child1[i], child2[i]>>.
SBXGene(a, b) ==
    {<<a, b>>} \cup
    (IF a # b
     THEN {<<((1 + beta) * a + (1 - beta) * b) \div 2, ((1 - beta) * a + (1 + beta) * b) \div 2>> : beta \in BetaDraws}
     ELSE {})

\* <<child1, child2>> of _simulated_binary_crossover(parent1, parent2).
SimulatedBinaryCrossover(p1, p2) ==
    {<<[d \in Dims(problem) |-> g[d][1]], [d \in Dims(problem) |-> g[d][2]]>> :
        g \in {h \in [Dims(problem) -> UNION {SBXGene(p1[d], p2[d]) : d \in Dims(problem)}] :
                    \A d \in Dims(problem) : h[d] \in SBXGene(p1[d], p2[d])}}

\* Whether "np.random.random() < rate" can come out TRUE / FALSE (rate in tenths).
BelowRate(rate) == {b \in BOOLEAN : (b => rate > 0) /\ (~b => rate < 10)}

\* Integer values of delta * (upper - lower) in _polynomial_mutation.
MutationOffsets(lo, hi) == {0 - (hi - lo), -1, 1}

\* _polynomial_mutation(individual): every gene mutates with probability mutation_rate.
PolynomialMutation(x) ==
    IF params.mutation_rate = 0 THEN {x}
    ELSE {m \in [Dims(problem) -> UNION {{x[d] + o : o \in MutationOffsets(Lower(problem, d), Upper(problem, d)) \cup {0}} : d \in Dims(problem)}] :
            \A d \in Dims(problem) :
                m[d] - x[d] \in MutationOffsets(Lower(problem, d), Upper(problem, d)) \cup {0}}

\* The pairs <<child1, child2>> one pass of the offspring loop can append.
OffspringPairs ==
    UNION { UNION { {<<ApplyBounds(problem, m1), ApplyBounds(problem, m2)>> :
                        m1 \in PolynomialMutation(c[1]), m2 \in PolynomialMutation(c[2])} :
                    c \in UNION { IF cross THEN SimulatedBinaryCrossover(pop[w1], pop[w2]) ELSE {<<pop[w1], pop[w2]>>} :
                                  cross \in BelowRate(params.crossover_rate) } } :
            w1 \in TournamentWinners, w2 \in TournamentWinners }

\* A mutation of NewPopulationsOf: the list is not cut back to the population size.
NewPopulationsUntrimmed(n) ==
    LET passes == (n + 1) \div 2
    IN {[k \in 1..(2 * passes) |-> ps[(k + 1) \div 2][2 - (k % 2)]] : ps \in [1..passes -> OffspringPairs]}

\* new_population for a population size n: the while loop appends pairs until
\* n is reached, then the list is cut to new_population[:n].
NewPopulationsOf(n) ==
    LET passes == (n + 1) \div 2
    IN {[k \in 1..n |-> ps[(k + 1) \div 2][2 - (k % 2)]] : ps \in [1..passes -> OffspringPairs]}

\* new_population after the while loop and the trim to population_size.
NewPopulations == NewPopulationsOf(Len(pop))

\* A mutation of GAGeneration: a population best that ties with the best-so-far replaces it.
GAGenerationOnTies ==
    /\ BodyRuns("GA")
    /\ \E xs \in NewPopulations :
        LET bad == FirstBad(problem.fn, xs)
            n == IF bad = 0 THEN Len(xs) ELSE bad
            values == EvaluateAll(problem.fn, xs)
            current_best_idx == ArgBest(problem.objective, values)
            improved == ~IsBetter(problem.objective, bestFit, values[current_best_idx])
        IN /\ pop' = xs
           /\ calls' = calls + n
           /\ hist' = [hist EXCEPT !.bad = NoteBad(problem.fn, xs, n)]
           /\ IF bad # 0
              THEN /\ Raise
                   /\ UNCHANGED <<fit, best, bestFit, curve, iter>>
              ELSE /\ fit' = values
                   /\ best' = IF improved THEN xs[current_best_idx] ELSE best
                   /\ bestFit' = IF improved THEN values[current_best_idx] ELSE bestFit
                   /\ curve' = Append(curve, IF improved THEN values[current_best_idx] ELSE bestFit)
                   /\ iter' = iter + 1
                   /\ UNCHANGED <<pc, err>>
    /\ UNCHANGED <<algo, problem, params, initialized, vel, pbest, pbestFit, idx, ants, sa, expired, result>>
    /\ UNCHANGED <<rng, twin>>

\* One generation: breed, replace the population, evaluate it, update the best.
GAGeneration ==
    /\ BodyRuns("GA")
    /\ \E xs \in NewPopulations :
        LET bad == FirstBad(problem.fn, xs)
            n == IF bad = 0 THEN Len(xs) ELSE bad
            values == EvaluateAll(problem.fn, xs)
            current_best_idx == ArgBest(problem.objective, values)
            improved == IsBetter(problem.objective, values[current_best_idx], bestFit)
        IN /\ pop' = xs
           /\ calls' = calls + n
           /\ hist' = [hist EXCEPT !.bad = NoteBad(problem.fn, xs, n)]
           /\ IF bad # 0
              THEN /\ Raise
                   /\ UNCHANGED <<fit, best, bestFit, curve, iter>>
              ELSE /\ fit' = values
                   /\ best' = IF improved THEN xs[current_best_idx] ELSE best
                   /\ bestFit' = IF improved THEN values[current_best_idx] ELSE bestFit
                   /\ curve' = Append(curve, IF improved THEN values[current_best_idx] ELSE bestFit)
                   /\ iter' = iter + 1
                   /\ UNCHANGED <<pc, err>>
    /\ UNCHANGED <<algo, problem, params, initialized, vel, pbest, pbestFit, idx, ants, sa, expired, result>>
    /\ UNCHANGED <<rng, twin>>

(***************************************************************************)
(* DE: mutation, boundary policy, binomial crossover, greedy selection.    *)
(***************************************************************************)
\* _apply_boundary under the configured boundary_handling.
ApplyBoundary(vec) ==
    [d \in Dims(problem) |->
        LET lo == Lower(problem, d)
            hi == Upper(problem, d)
            v == vec[d]
            r1 == IF v < lo THEN lo + (lo - v) ELSE v
            r2 == IF r1 > hi THEN hi - (r1 - hi) ELSE r1
        IN CASE params.boundary_handling = "clip" -> Clip(v, lo, hi)
             [] params.boundary_handling = "reflect" -> Clip(r2, lo, hi)
             [] OTHER -> lo + ((v - lo) % (hi - lo))]

\* np.random.choice(idxs, n, replace=False): n distinct indices other than i, in order.
OtherIndices(i, n) ==
    {c \in [1..n -> (1..Len(pop)) \ {i}] : \A j, k \in 1..n : j # k => c[j] # c[k]}

\* F is held in tenths.
Scaled(diff) == (params.F * diff) \div 10

\* _mutate_rand_1, _mutate_best_1, _mutate_rand_2: the mutants for target i.
Mutants(i) ==
    CASE params.strategy = "rand/1/bin" ->
            {[d \in Dims(problem) |-> pop[c[1]][d] + Scaled(pop[c[2]][d] - pop[c[3]][d])] : c \in OtherIndices(i, 3)}
      [] params.strategy = "best/1/bin" ->
            {[d \in Dims(problem) |-> best[d] + Scaled(pop[c[1]][d] - pop[c[2]][d])] : c \in OtherIndices(i, 2)}
      [] OTHER ->
            {[d \in Dims(problem) |-> pop[c[1]][d] + Scaled(pop[c[2]][d] - pop[c[3]][d] + pop[c[4]][d] - pop[c[5]][d])] :
                c \in OtherIndices(i, 5)}

\* cross_mask: rand < CR per dimension; when empty one random dimension is forced.
CrossMasks ==
    LET drawn == {m \in [Dims(problem) -> BOOLEAN] : \A d \in Dims(problem) : m[d] \in BelowRate(params.CR)}
    IN UNION {IF \E d \in Dims(problem) : m[d] THEN {m}
              ELSE {[m EXCEPT ![j] = TRUE] : j \in Dims(problem)} : m \in drawn}

\* The trial vectors that can be evaluated for target i.
Trials(i) ==
    {ApplyBoundary([d \in Dims(problem) |-> IF mask[d] THEN ApplyBoundary(mutant)[d] ELSE pop[i][d]]) :
        mutant \in Mutants(i), mask \in CrossMasks}

DEBeginIteration ==
    /\ BodyRuns("DE")
    /\ pc' = "eval"
    /\ idx' = 1
    /\ UNCHANGED <<algo, problem, params, err, initialized, pop, fit, vel, pbest, pbestFit,
                   best, bestFit, curve, iter, ants, sa, expired, result, calls, hist>>
    /\ UNCHANGED <<rng, twin>>

\* A mutation of DETarget: a trial that ties with its target replaces it.
DETargetOnTies ==
    /\ pc = "eval"
    /\ algo = "DE"
    /\ \E trial \in Trials(idx) :
        LET e == Evaluate(problem.fn, trial)
            better == e.ok /\ ~IsBetter(problem.objective, fit[idx], e.val)
            record == better /\ IsBetter(problem.objective, e.val, bestFit)
            best_fitness == IF record THEN e.val ELSE bestFit
        IN /\ calls' = calls + 1
           /\ hist' = [hist EXCEPT !.bad = NoteBad(problem.fn, <<trial>>, 1)]
           /\ IF ~e.ok
              THEN /\ Raise
                   /\ UNCHANGED <<pop, fit, best, bestFit, curve, iter, idx>>
              ELSE /\ pop' = IF better THEN [pop EXCEPT ![idx] = trial] ELSE pop
                   /\ fit' = IF better THEN [fit EXCEPT ![idx] = e.val] ELSE fit
                   /\ best' = IF record THEN trial ELSE best
                   /\ bestFit' = best_fitness
                   /\ IF idx = Len(pop)
                      THEN /\ curve' = Append(curve, best_fitness)
                           /\ iter' = iter + 1
                           /\ idx' = 0
                           /\ pc' = "loop"
                      ELSE /\ idx' = idx + 1
                           /\ UNCHANGED <<curve, iter, pc>>
                   /\ err' = err
    /\ UNCHANGED <<algo, problem, params, initialized, vel, pbest, pbestFit, ants, sa, expired, result>>
    /\ UNCHANGED <<rng, twin>>

\* A mutation of DETarget: the best-so-far is not updated by a replacement.
DETargetKeepsRecord ==
    /\ pc = "eval"
    /\ algo = "DE"
    /\ \E trial \in Trials(idx) :
        LET e == Evaluate(problem.fn, trial)
            better == e.ok /\ IsBetter(problem.objective, e.val, fit[idx])
            record == FALSE
            best_fitness == IF record THEN e.val ELSE bestFit
        IN /\ calls' = calls + 1
           /\ hist' = [hist EXCEPT !.bad = NoteBad(problem.fn, <<trial>>, 1)]
           /\ IF ~e.ok
              THEN /\ Raise
                   /\ UNCHANGED <<pop, fit, best, bestFit, curve, iter, idx>>
              ELSE /\ pop' = IF better THEN [pop EXCEPT ![idx] = trial] ELSE pop
                   /\ fit' = IF better THEN [fit EXCEPT ![idx] = e.val] ELSE fit
                   /\ best' = IF record THEN trial ELSE best
                   /\ bestFit' = best_fitness
                   /\ IF idx = Len(pop)
                      THEN /\ curve' = Append(curve, best_fitness)
                           /\ iter' = iter + 1
                           /\ idx' = 0
                           /\ pc' = "loop"
                      ELSE /\ idx' = idx + 1
                           /\ UNCHANGED <<curve, iter, pc>>
                   /\ err' = err
    /\ UNCHANGED <<algo, problem, params, initialized, vel, pbest, pbestFit, ants, sa, expired, result>>
    /\ UNCHANGED <<rng, twin>>

\* The body of "for i in range(self.population_size)" for target idx.
DETarget ==
    /\ pc = "eval"
    /\ algo = "DE"
    /\ \E trial \in Trials(idx) :
        LET e == Evaluate(problem.fn, trial)
            better == e.ok /\ IsBetter(problem.objective, e.val, fit[idx])
            record == better /\ IsBetter(problem.objective, e.val, bestFit)
            best_fitness == IF record THEN e.val ELSE bestFit
        IN /\ calls' = calls + 1
           /\ hist' = [hist EXCEPT !.bad = NoteBad(problem.fn, <<trial>>, 1)]
           /\ IF ~e.ok
              THEN /\ Raise
                   /\ UNCHANGED <<pop, fit, best, bestFit, curve, iter, idx>>
              ELSE /\ pop' = IF better THEN [pop EXCEPT ![idx] = trial] ELSE pop
                   /\ fit' = IF better THEN [fit EXCEPT ![idx] = e.val] ELSE fit
                   /\ best' = IF record THEN trial ELSE best
                   /\ bestFit' = best_fitness
                   /\ IF idx = Len(pop)
                      THEN /\ curve' = Append(curve, best_fitness)
                           /\ iter' = iter + 1
                           /\ idx' = 0
                           /\ pc' = "loop"
                      ELSE /\ idx' = idx + 1
                           /\ UNCHANGED <<curve, iter, pc>>
                   /\ err' = err
    /\ UNCHANGED <<algo, problem, params, initialized, vel, pbest, pbestFit, ants, sa, expired, result>>
    /\ UNCHANGED <<rng, twin>>

(***************************************************************************)
(* ACOR: ants sample around archive members; the archive is merged with    *)
(* the new solutions, sorted and cut back to archive_size.                 *)
(***************************************************************************)
\* _update_weights: the ranks (1 = best) whose weight is a positive float, i.e.
\* whose exponent -(rank-1)^2 / (2 (q k)^2) does not underflow exp (q in hundredths).
SelectableRanks ==
    {r \in 1..Len(pop) : (r - 1) * (r - 1) * 10000 < 1490 * params.q * params.q * params.archive_size * params.archive_size}

\* sigma of _construct_solution is positive for dimension d around member sel.
SigmaPositive(sel, d) ==
    IF params.archive_size > 1
    THEN \E j \in 1..Len(pop) : pop[j][d] # pop[sel][d]
    ELSE TRUE

\* _construct_solution
ConstructedSolutions ==
    UNION {{x \in [Dims(problem) -> UNION {{pop[sel][d] + z : z \in NormalDraws(TRUE)} : d \in Dims(problem)}] :
                \A d \in Dims(problem) : x[d] - pop[sel][d] \in NormalDraws(SigmaPositive(sel, d))} :
           sel \in SelectableRanks}

ACORBeginIteration ==
    /\ BodyRuns("ACOR")
    /\ ants' = <<>>
    /\ pc' = "eval"
    /\ idx' = 1
    /\ UNCHANGED <<algo, problem, params, err, initialized, pop, fit, vel, pbest, pbestFit,
                   best, bestFit, curve, iter, sa, expired, result, calls, hist>>
    /\ UNCHANGED <<rng, twin>>

\* The body of "for ant in range(self.colony_size)"; after the last ant the
\* archive is merged and the iteration recorded.
ACORAnt ==
    /\ pc = "eval"
    /\ algo = "ACOR"
    /\ \E x \in ConstructedSolutions :
        LET new_solution == ApplyBounds(problem, x)
            e == Evaluate(problem.fn, new_solution)
            all == Append(ants, [sol |-> new_solution, fitness |-> e.val])
            combined_solutions == pop \o [k \in 1..Len(all) |-> all[k].sol]
            combined_fitness == fit \o [k \in 1..Len(all) |-> all[k].fitness]
            sorted_indices == SubSeq(GetSortedIndices(problem.objective, combined_fitness), 1, Len(pop))
            archive_solutions == Permute(combined_solutions, sorted_indices)
            archive_fitness == Permute(combined_fitness, sorted_indices)
            improved == IsBetter(problem.objective, archive_fitness[1], bestFit)
        IN /\ calls' = calls + 1
           /\ hist' = [hist EXCEPT !.bad = NoteBad(problem.fn, <<new_solution>>, 1)]
           /\ IF ~e.ok
              THEN /\ Raise
                   /\ UNCHANGED <<pop, fit, best, bestFit, curve, iter, idx, ants>>
              ELSE IF idx < Colony(params)
              THEN /\ ants' = all
                   /\ idx' = idx + 1
                   /\ UNCHANGED <<pop, fit, best, bestFit, curve, iter, pc, err>>
              ELSE /\ ants' = all
                   /\ pop' = archive_solutions
                   /\ fit' = archive_fitness
                   /\ best' = IF improved THEN archive_solutions[1] ELSE best
                   /\ bestFit' = IF improved THEN archive_fitness[1] ELSE bestFit
                   /\ curve' = Append(curve, IF improved THEN archive_fitness[1] ELSE bestFit)
                   /\ iter' = iter + 1
                   /\ idx' = 0
                   /\ pc' = "loop"
                   /\ err' = err
    /\ UNCHANGED <<algo, problem, params, initialized, vel, pbest, pbestFit, sa, expired, result>>
    /\ UNCHANGED <<rng, twin>>

(***************************************************************************)
(* SA: temperature levels, proposal steps, Metropolis acceptance, cooling. *)
(* Temperatures are held in hundredths.                                    *)
(***************************************************************************)
\* 1000 * ln(n), rounded, for the arguments the model reaches.
Ln1000(n) == <<0, 693, 1099, 1386, 1609, 1792, 1946, 2079, 2197>>[Min(n, 9)]

\* A mutation of CoolTemperature: the linear step is a tenth, not a hundredth, of the range.
CoolTemperatureCoarse(current_temp, iteration) ==
    CASE params.cooling_schedule = "linear" ->
            Max(current_temp - (params.initial_temp - params.final_temp) \div 10, params.final_temp)
      [] params.cooling_schedule = "logarithmic" ->
            Max((params.initial_temp * 2000) \div (2000 + 5 * iteration * Ln1000(1 + iteration)), params.final_temp)
      [] OTHER -> (current_temp * params.cooling_rate) \div 10

CoolTemperatureHeating(current_temp, iteration) ==
    current_temp + (current_temp * params.cooling_rate) \div 10

\* _cool_temperature(current_temp, iteration)
CoolTemperature(current_temp, iteration) ==
    CASE params.cooling_schedule = "geometric" -> (current_temp * params.cooling_rate) \div 10
      [] params.cooling_schedule = "linear" ->
            Max(current_temp - (params.initial_temp - params.final_temp) \div 100, params.final_temp)
      [] params.cooling_schedule = "logarithmic" ->
            Max((params.initial_temp * 2000) \div (2000 + 5 * iteration * Ln1000(1 + iteration)), params.final_temp)
      [] OTHER -> (current_temp * params.cooling_rate) \div 10

\* _generate_neighbor: Gaussian noise on every dimension, clipped to the bounds.
Neighbors(x) ==
    {ApplyBounds(problem, y) :
        y \in {z \in [Dims(problem) -> UNION {{x[d] + n : n \in NormalDraws(TRUE)} : d \in Dims(problem)}] :
                    \A d \in Dims(problem) : z[d] - x[d] \in NormalDraws(TRUE)}}

\* A mutation of AcceptSolution: every candidate goes through the random test.
AcceptSolutionAlwaysRandom(new_fitness, current_fitness) == BOOLEAN

\* _accept_solution: the outcomes the Metropolis test can have.
AcceptSolution(new_fitness, current_fitness) ==
    LET delta_E == IF problem.objective = "minimize" THEN new_fitness - current_fitness
                   ELSE current_fitness - new_fitness
    IN IF IsBetter(problem.objective, new_fitness, current_fitness) THEN {TRUE}
       ELSE IF delta_E <= 0 THEN {TRUE}
       ELSE BOOLEAN

\* A mutation of AcceptanceRate: the division is not guarded.
AcceptanceRateUnguarded(state) == <<state.acceptance_count, state.total_worse_attempts>>

\* The statements after the temperature loop: the acceptance rate.
AcceptanceRate(state) ==
    IF state.total_worse_attempts > 0
    THEN <<state.acceptance_count, state.total_worse_attempts>>
    ELSE <<0, 1>>

\* The statements after the inner for loop: cool down, then either stop
\* (temperature <= 0) or record the level.  state is sa as the level left it,
\* best_fitness the best after the level.
CoolDown(state, best_fitness) ==
    LET t == CoolTemperature(state.temperature, state.iteration_counter)
    IN IF t <= 0
       THEN /\ sa' = [state EXCEPT !.temperature = params.final_temp,
                                   !.acceptance_rate = AcceptanceRate(state)]
            /\ curve' = curve
            /\ pc' = "idle"
       ELSE /\ sa' = [state EXCEPT !.temperature = t,
                                   !.temperature_history = Append(@, t)]
            /\ curve' = Append(curve, best_fitness)
            /\ pc' = "level"

\* "while self.temperature > self.final_temp" is false: optimize() returns.
SAFinish ==
    /\ pc = "level"
    /\ ~(sa.temperature > params.final_temp)
    /\ sa' = [sa EXCEPT !.acceptance_rate = AcceptanceRate(sa)]
    /\ pc' = "idle"
    /\ UNCHANGED <<algo, problem, params, err, initialized, pop, fit, vel, pbest, pbestFit,
                   best, bestFit, curve, iter, idx, ants, expired, result, calls, hist>>
    /\ UNCHANGED <<rng, twin>>

\* The timeout check at the top of a temperature level fires.
SALevelTimeout ==
    /\ pc = "level"
    /\ sa.temperature > params.final_temp
    /\ TRUE \in ClockReads
    /\ expired' = TRUE
    /\ sa' = [sa EXCEPT !.acceptance_rate = AcceptanceRate(sa)]
    /\ pc' = "idle"
    /\ hist' = [hist EXCEPT !.tmo = IF @.seen THEN @ ELSE Snapshot(calls, curve, best)]
    /\ UNCHANGED <<algo, problem, params, err, initialized, pop, fit, vel, pbest, pbestFit,
                   best, bestFit, curve, iter, idx, ants, result, calls>>
    /\ UNCHANGED <<rng, twin>>

\* The level starts: the inner for loop is entered.
SALevelTop ==
    /\ pc = "level"
    /\ sa.temperature > params.final_temp
    /\ iter < IterCap
    /\ FALSE \in ClockReads
    /\ pc' = "step"
    /\ idx' = 1
    /\ UNCHANGED <<algo, problem, params, err, initialized, pop, fit, vel, pbest, pbestFit,
                   best, bestFit, curve, iter, ants, sa, expired, result, calls, hist>>
    /\ UNCHANGED <<rng, twin>>

\* The timeout check inside the inner loop fires: break, then the statements
\* after the inner loop run.
SAProposalTimeout ==
    /\ pc = "step"
    /\ TRUE \in ClockReads
    /\ expired' = TRUE
    /\ hist' = [hist EXCEPT !.tmo = Snapshot(calls, curve, best)]
    /\ CoolDown([sa EXCEPT !.iteration_counter = @ + 1], bestFit)
    /\ iter' = iter + 1
    /\ idx' = 0
    /\ UNCHANGED <<algo, problem, params, err, initialized, pop, fit, vel, pbest, pbestFit,
                   best, bestFit, ants, result, calls>>
    /\ UNCHANGED <<rng, twin>>

\* A mutation of SAProposal: a candidate that ties with the best replaces the best solution.
SAProposalOnTies ==
    /\ pc = "step"
    /\ FALSE \in ClockReads
    /\ \E neighbor \in Neighbors(pop[1]) :
        LET e == Evaluate(problem.fn, neighbor)
            is_worse == ~IsBetter(problem.objective, e.val, fit[1])
            improved == ~IsBetter(problem.objective, bestFit, e.val)
            best_fitness == IF improved THEN e.val ELSE bestFit
        IN /\ calls' = calls + 1
           /\ hist' = [hist EXCEPT !.bad = NoteBad(problem.fn, <<neighbor>>, 1)]
           /\ IF ~e.ok
              THEN /\ Raise
                   /\ sa' = [sa EXCEPT !.iteration_counter = @ + 1]
                   /\ UNCHANGED <<pop, fit, best, bestFit, curve, iter, idx>>
              ELSE \E accept \in AcceptSolution(e.val, fit[1]) :
                   LET state == [sa EXCEPT !.iteration_counter = @ + 1,
                                           !.acceptance_count = IF accept /\ is_worse THEN @ + 1 ELSE @,
                                           !.total_worse_attempts = IF is_worse THEN @ + 1 ELSE @]
                   IN /\ pop' = IF accept THEN <<neighbor>> ELSE pop
                      /\ fit' = IF accept THEN <<e.val>> ELSE fit
                      /\ best' = IF improved THEN neighbor ELSE best
                      /\ bestFit' = best_fitness
                      /\ err' = err
                      /\ IF idx = params.max_iterations
                         THEN /\ CoolDown(state, best_fitness)
                              /\ iter' = iter + 1
                              /\ idx' = 0
                         ELSE /\ sa' = state
                              /\ idx' = idx + 1
                              /\ UNCHANGED <<curve, iter, pc>>
    /\ UNCHANGED <<algo, problem, params, initialized, vel, pbest, pbestFit, ants, expired, result>>
    /\ UNCHANGED <<rng, twin>>

\* One proposal step; after the last one of the level the temperature is cooled.
SAProposal ==
    /\ pc = "step"
    /\ FALSE \in ClockReads
    /\ \E neighbor \in Neighbors(pop[1]) :
        LET e == Evaluate(problem.fn, neighbor)
            is_worse == ~IsBetter(problem.objective, e.val, fit[1])
            improved == IsBetter(problem.objective, e.val, bestFit)
            best_fitness == IF improved THEN e.val ELSE bestFit
        IN /\ calls' = calls + 1
           /\ hist' = [hist EXCEPT !.bad = NoteBad(problem.fn, <<neighbor>>, 1)]
           /\ IF ~e.ok
              THEN /\ Raise
                   /\ sa' = [sa EXCEPT !.iteration_counter = @ + 1]
                   /\ UNCHANGED <<pop, fit, best, bestFit, curve, iter, idx>>
              ELSE \E accept \in AcceptSolution(e.val, fit[1]) :
                   LET state == [sa EXCEPT !.iteration_counter = @ + 1,
                                           !.acceptance_count = IF accept /\ is_worse THEN @ + 1 ELSE @,
                                           !.total_worse_attempts = IF is_worse THEN @ + 1 ELSE @]
                   IN /\ pop' = IF accept THEN <<neighbor>> ELSE pop
                      /\ fit' = IF accept THEN <<e.val>> ELSE fit
                      /\ best' = IF improved THEN neighbor ELSE best
                      /\ bestFit' = best_fitness
                      /\ err' = err
                      /\ IF idx = params.max_iterations
                         THEN /\ CoolDown(state, best_fitness)
                              /\ iter' = iter + 1
                              /\ idx' = 0
                         ELSE /\ sa' = state
                              /\ idx' = idx + 1
                              /\ UNCHANGED <<curve, iter, pc>>
    /\ UNCHANGED <<algo, problem, params, initialized, vel, pbest, pbestFit, ants, expired, result>>
    /\ UNCHANGED <<rng, twin>>

(***************************************************************************)
(* The engine's behaviours.                                                *)
(***************************************************************************)
Next ==
    \/ Construct
    \/ PSOInitialize
    \/ GAInitialize
    \/ DEInitialize
    \/ ACORInitialize
    \/ SAInitialize
    \/ OptimizeCall
    \/ TimeoutBreak
    \/ LoopExit
    \/ PSOMove
    \/ PSOEvaluate
    \/ GAGeneration
    \/ DEBeginIteration
    \/ DETarget
    \/ ACORBeginIteration
    \/ ACORAnt
    \/ SALevelTop
    \/ SALevelTimeout
    \/ SAFinish
    \/ SAProposal
    \/ SAProposalTimeout

Spec == Init /\ [][Next]_vars


(***************************************************************************)
(* Temperature trajectories.  The while loop of SimulatedAnnealing.optimize *)
(* without timeouts, one step per temperature level, for the three cooling *)
(* schedules and as many levels as the schedule needs.  _cool_temperature  *)
(* reads only the temperature, the parameters and the iteration counter,   *)
(* so the solution and the acceptance counters are held fixed.             *)
(***************************************************************************)
\* Validated parameter sets of the three schedules.
CoolingParams ==
    {[DefaultParams("SA") EXCEPT !.cooling_schedule = "geometric", !.cooling_rate = r,
                                 !.initial_temp = t0, !.final_temp = tf] :
        r \in {1, 5, 9}, t0 \in {400, 1000}, tf \in {1, 100}}
    \cup {[DefaultParams("SA") EXCEPT !.cooling_schedule = "linear",
                                      !.initial_temp = t0, !.final_temp = tf] :
        t0 \in {400, 1000}, tf \in {100, 200}}
    \cup {[DefaultParams("SA") EXCEPT !.cooling_schedule = "logarithmic", !.max_iterations = n,
                                      !.initial_temp = t0, !.final_temp = tf] :
        n \in {1, 2}, t0 \in {400, 1000}, tf \in {1, 100}}

\* initialize() has succeeded and optimize() is at the top of its while loop.
CoolingInit ==
    /\ algo = "SA"
    /\ problem = Problem("minimize", "sphere")
    /\ params \in CoolingParams
    /\ pc = "level"
    /\ err = "none"
    /\ initialized = TRUE
    /\ pop = << <<0>> >> /\ fit = <<0>>
    /\ vel = None /\ pbest = None /\ pbestFit = None
    /\ best = <<0>> /\ bestFit = 0
    /\ curve = <<0>>
    /\ iter = 0 /\ idx = 0
    /\ ants = <<>>
    /\ sa = [temperature |-> params.initial_temp, temperature_history |-> <<params.initial_temp>>,
             acceptance_count |-> 0, total_worse_attempts |-> 0, acceptance_rate |-> <<0, 1>>,
             iteration_counter |-> 0]
    /\ expired = FALSE
    /\ result = None
    /\ calls = 1
    /\ hist = [inits |-> 1, opts |-> 1, last |-> "optimize", bad |-> NoSnapshot, tmo |-> NoSnapshot]
    /\ rng = [seed |-> 0, pos |-> 0]
    /\ twin = <<>>

\* One pass of the while loop: the inner for loop runs max_iterations times, then
\* the temperature is cooled and the level recorded.
SALevelCools ==
    /\ pc = "level"
    /\ sa.temperature > params.final_temp
    /\ CoolDown([sa EXCEPT !.iteration_counter = @ + params.max_iterations], bestFit)
    /\ iter' = iter + 1
    /\ calls' = calls + params.max_iterations
    /\ UNCHANGED <<algo, problem, params, err, initialized, pop, fit, vel, pbest, pbestFit,
                   best, bestFit, idx, ants, expired, result, hist>>
    /\ UNCHANGED <<rng, twin>>

CoolingNext ==
    \/ SALevelCools
    \/ SAFinish

CoolingSpec == CoolingInit /\ [][CoolingNext]_vars

\* optimize() is a sequential loop: while a pass of the loop or its exit is
\* possible, the program takes it.
CoolingFairSpec == CoolingSpec /\ WF_vars(CoolingNext)


(***************************************************************************)
(* Seeded runs.  Every engine draws through the module-level functions of  *)
(* np.random, that is, from the one generator of the process.  After       *)
(* np.random.seed(s) the k-th raw draw is a function of s and k, and each  *)
(* np.random call of any instance consumes the next raw draws.  Two        *)
(* instances of the same engine on the same problem are stepped by the     *)
(* caller: initialize(), then one iteration (PSO) or one temperature level *)
(* (SA) at a time, without timeouts.                                       *)
(***************************************************************************)
\* Seeds the caller may pass to np.random.seed: 0..SeedMax.
SeedMax == 3
\* Number of distinct raw values of the generator.
RawLevels == 16

\* The k-th raw draw after np.random.seed(seed): a full-period congruential stream.
RECURSIVE RawDraw(_, _)
RawDraw(seed, k) == IF k = 0 THEN seed % RawLevels ELSE (5 * RawDraw(seed, k - 1) + 3) % RawLevels

\* The element of S that has n smaller elements.
Nth(S, n) == CHOOSE x \in S : Cardinality({y \in S : y < x}) = n

\* The value a draw takes in its set of outcomes S when the raw draw is r.
Pick(S, r) == Nth(S, (r * Cardinality(S)) \div RawLevels)

FreshTwin ==
    [pc |-> "new", pop |-> <<>>, vel |-> <<>>, pbest |-> <<>>, pbestFit |-> <<>>, fit |-> <<>>,
     best |-> <<>>, bestFit |-> 0, curve |-> <<>>, iter |-> 0,
     temperature |-> 0, iteration_counter |-> 0,
     used |-> 0, solo |-> TRUE, mixed |-> FALSE]

\* A mutation of StreamOffset: each instance reads the stream at a place of its own.
StreamOffsetPerInstance(i) == rng.pos - twin[i].used + i

\* Where the next np.random call of instance i reads the stream, less the draws
\* the instance has made itself: the generator's position is global.
StreamOffset(i) == rng.pos - twin[i].used

\* ParticleSwarmOptimization.initialize with its draws read from the stream:
\* per dimension the positions of all particles, then their velocities.
SeededPSOInitialize(st, seed, off) ==
    LET n == Tracked("PSO", params)
        D == problem.dimensions
        xs == [i \in 1..n |-> [d \in Dims(problem) |->
                    Pick(UniformDraws(Lower(problem, d), Upper(problem, d)),
                         RawDraw(seed, off + st.used + (d - 1) * 2 * n + i))]]
        vs == [i \in 1..n |-> [d \in Dims(problem) |->
                    Pick(VelocityDraws(Lower(problem, d), Upper(problem, d)),
                         RawDraw(seed, off + st.used + (d - 1) * 2 * n + n + i))]]
        scores == EvaluateAll(problem.fn, xs)
        best_idx == ArgBest(problem.objective, scores)
    IN [st EXCEPT !.pc = "idle", !.pop = xs, !.vel = vs, !.pbest = xs, !.pbestFit = scores,
                  !.best = xs[best_idx], !.bestFit = scores[best_idx],
                  !.curve = Append(@, scores[best_idx]),
                  !.used = @ + 2 * n * D]

\* The evaluation loop of one PSO iteration after particles 1..k.
RECURSIVE SeededPSOEvaluated(_, _)
SeededPSOEvaluated(st, k) ==
    IF k = 0 THEN st
    ELSE LET prev == SeededPSOEvaluated(st, k - 1)
             fitness == Evaluate(problem.fn, prev.pop[k]).val
             personal == IsBetter(problem.objective, fitness, prev.pbestFit[k])
             global == personal /\ IsBetter(problem.objective, fitness, prev.bestFit)
         IN [prev EXCEPT !.pbest = IF personal THEN [@ EXCEPT ![k] = prev.pop[k]] ELSE @,
                         !.pbestFit = IF personal THEN [@ EXCEPT ![k] = fitness] ELSE @,
                         !.best = IF global THEN prev.pop[k] ELSE @,
                         !.bestFit = IF global THEN fitness ELSE @]

\* One iteration of ParticleSwarmOptimization.optimize: particle i draws r1 then r2.
SeededPSOIterate(st, seed, off) ==
    LET n == Len(st.pop)
        D == problem.dimensions
        r1(i, d) == Pick(RandomTimes(params.c1), RawDraw(seed, off + st.used + (i - 1) * 2 * D + d))
        r2(i, d) == Pick(RandomTimes(params.c2), RawDraw(seed, off + st.used + (i - 1) * 2 * D + D + d))
        velocity(i) == [d \in Dims(problem) |->
                            params.w * st.vel[i][d]
                            + r1(i, d) * (st.pbest[i][d] - st.pop[i][d])
                            + r2(i, d) * (st.best[d] - st.pop[i][d])]
        position(i) == [d \in Dims(problem) |-> st.pop[i][d] + velocity(i)[d]]
        moved == [st EXCEPT !.vel = [i \in 1..n |-> velocity(i)],
                            !.pop = [i \in 1..n |-> ApplyBounds(problem, position(i))]]
        after == SeededPSOEvaluated(moved, n)
    IN [after EXCEPT !.curve = Append(@, after.bestFit),
                     !.iter = @ + 1,
                     !.used = @ + 2 * n * D,
                     !.pc = IF after.iter + 1 = params.max_iterations THEN "done" ELSE "idle"]

\* SimulatedAnnealing.initialize with its draws read from the stream.
SeededSAInitialize(st, seed, off) ==
    LET x == [d \in Dims(problem) |->
                Pick(UniformDraws(Lower(problem, d), Upper(problem, d)), RawDraw(seed, off + st.used + d))]
        f == Evaluate(problem.fn, x).val
    IN [st EXCEPT !.pc = IF params.initial_temp > params.final_temp THEN "idle" ELSE "done",
                  !.pop = <<x>>, !.fit = <<f>>, !.best = x, !.bestFit = f,
                  !.curve = Append(@, f),
                  !.temperature = params.initial_temp,
                  !.used = @ + problem.dimensions]

\* One proposal step of SimulatedAnnealing.optimize: the neighbour's noise, then,
\* only when the Metropolis test needs it, one np.random.random().
SeededSAProposal(st, seed, off) ==
    LET D == problem.dimensions
        neighbor == ApplyBounds(problem, [d \in Dims(problem) |->
                        st.pop[1][d] + Pick(NormalDraws(TRUE), RawDraw(seed, off + st.used + d))])
        f == Evaluate(problem.fn, neighbor).val
        certain == AcceptSolution(f, st.fit[1]) = {TRUE}
        accept == certain \/ Pick({0, 1}, RawDraw(seed, off + st.used + D + 1)) = 0
        improved == IsBetter(problem.objective, f, st.bestFit)
    IN [st EXCEPT !.pop = IF accept THEN <<neighbor>> ELSE @,
                  !.fit = IF accept THEN <<f>> ELSE @,
                  !.best = IF improved THEN neighbor ELSE @,
                  !.bestFit = IF improved THEN f ELSE @,
                  !.iteration_counter = @ + 1,
                  !.used = @ + D + (IF certain THEN 0 ELSE 1)]

\* The inner for loop of one temperature level after k proposal steps.
RECURSIVE SeededSAProposals(_, _, _, _)
SeededSAProposals(st, seed, off, k) ==
    IF k = 0 THEN st ELSE SeededSAProposal(SeededSAProposals(st, seed, off, k - 1), seed, off)

\* One temperature level of SimulatedAnnealing.optimize, cooling included.
SeededSALevel(st, seed, off) ==
    LET after == SeededSAProposals(st, seed, off, params.max_iterations)
        t == CoolTemperature(after.temperature, after.iteration_counter)
    IN IF t <= 0
       THEN [after EXCEPT !.temperature = params.final_temp, !.pc = "done"]
       ELSE [after EXCEPT !.temperature = t,
                          !.curve = Append(@, after.bestFit),
                          !.iter = @ + 1,
                          !.pc = IF t > params.final_temp THEN "idle" ELSE "done"]

SeededInitialize(st, seed, off) ==
    IF algo = "PSO" THEN SeededPSOInitialize(st, seed, off) ELSE SeededSAInitialize(st, seed, off)

SeededIterate(st, seed, off) ==
    IF algo = "PSO" THEN SeededPSOIterate(st, seed, off) ELSE SeededSALevel(st, seed, off)

\* The engine, problem and parameters of the seeded runs.
SeededConfigurations ==
    {<<"PSO", Problem("minimize", "sphere"), DefaultParams("PSO")>>,
     <<"PSO", Problem("maximize", "sphere"), DefaultParams("PSO")>>,
     <<"SA", Problem("minimize", "sphere"), DefaultParams("SA")>>,
     <<"SA", Problem("maximize", "sphere"), DefaultParams("SA")>>}

\* The caller has called np.random.seed(seed) and constructed two instances.
SeededInit ==
    /\ \E c \in SeededConfigurations : algo = c[1] /\ problem = c[2] /\ params = c[3]
    /\ pc = "idle"
    /\ err = "none"
    /\ initialized = FALSE
    /\ pop = None /\ fit = None /\ vel = None /\ pbest = None /\ pbestFit = None
    /\ best = None /\ bestFit = None
    /\ curve = <<>>
    /\ iter = 0 /\ idx = 0
    /\ ants = <<>>
    /\ sa = [temperature |-> None, temperature_history |-> <<>>, acceptance_count |-> 0,
             total_worse_attempts |-> 0, acceptance_rate |-> <<0, 1>>, iteration_counter |-> 0]
    /\ expired = FALSE
    /\ result = None
    /\ calls = 0
    /\ hist = [inits |-> 0, opts |-> 0, last |-> "none", bad |-> NoSnapshot, tmo |-> NoSnapshot]
    /\ \E seed \in 0..SeedMax : rng = [seed |-> seed, pos |-> 0]
    /\ twin = <<FreshTwin, FreshTwin>>

\* Instance i makes its next call, initialize() or the next iteration of
\* optimize(); the draws come from the process generator.
TwinStep(i) ==
    LET off == StreamOffset(i)
        other == twin[3 - i]
        st == [twin[i] EXCEPT !.solo = @ /\ rng.pos = twin[i].used,
                              !.mixed = @ \/ other.pc = "idle"]
        after == IF twin[i].pc = "new" THEN SeededInitialize(st, rng.seed, off)
                 ELSE SeededIterate(st, rng.seed, off)
    IN /\ twin' = [twin EXCEPT ![i] = after]
       /\ rng' = [rng EXCEPT !.pos = @ + (after.used - twin[i].used)]
       /\ UNCHANGED <<algo, problem, params, pc, err, initialized, pop, fit, vel, pbest, pbestFit,
                      best, bestFit, curve, iter, idx, ants, sa, expired, result, calls, hist>>

TwinInitialize ==
    \E i \in 1..2 : twin[i].pc = "new" /\ TwinStep(i)

TwinIterate ==
    \E i \in 1..2 : twin[i].pc = "idle" /\ TwinStep(i)

\* The caller calls np.random.seed(seed) again between two runs.
Reseed ==
    /\ rng.pos > 0
    /\ \A i \in 1..2 : twin[i].pc \in {"new", "done"}
    /\ \E i \in 1..2 : twin[i].pc = "new"
    /\ rng' = [rng EXCEPT !.pos = 0]
    /\ UNCHANGED <<algo, problem, params, pc, err, initialized, pop, fit, vel, pbest, pbestFit,
                   best, bestFit, curve, iter, idx, ants, sa, expired, result, calls, hist, twin>>

SeededNext ==
    \/ TwinInitialize
    \/ TwinIterate
    \/ Reseed

SeededSpec == SeededInit /\ [][SeededNext]_vars

(***************************************************************************)
(* Properties of the engines.                                              *)
(***************************************************************************)
Monotone(obj, c) ==
    \A i \in 2..Len(c) : IF obj = "minimize" THEN c[i] <= c[i - 1] ELSE c[i] >= c[i - 1]

\* C1: after one initialize() (explicit, or DE's implicit one) and any number of
\* optimize() calls, the convergence curve never regresses: every entry is <= the
\* entry before it when minimizing and >= it when maximizing.
MonotoneBestSoFar == hist.inits <= 1 => Monotone(problem.objective, curve)

\* One initialize(), two optimize() calls, and the curve improved strictly.
MonotoneBestSoFarWitness ==
    /\ hist.inits = 1 /\ hist.opts = 2 /\ pc = "idle"
    /\ problem.objective = "minimize"
    /\ Len(curve) >= 3
    /\ curve[Len(curve)] < curve[1]

FailedEvaluationAborts ==
    hist.bad.seen =>
        /\ pc = "dead"
        /\ err = "RuntimeError"
        /\ calls = hist.bad.calls
        /\ Len(curve) = hist.bad.len

\* The fitness function failed inside optimize(), after an initialize() that passed.
FailedEvaluationAbortsWitness ==
    /\ hist.bad.seen /\ pc = "dead"
    /\ hist.last = "optimize" /\ initialized
    /\ hist.bad.calls > Tracked(algo, params)

\* C4: once a timeout check has seen the deadline passed, optimize() evaluates
\* nothing more, raises nothing and keeps the best solution it had at the check.
TimeoutStopsWork ==
    hist.tmo.seen =>
        /\ calls = hist.tmo.calls
        /\ best = hist.tmo.best
        /\ err = "none"
        /\ pc \in {"idle", "level"}

\* optimize() returned after a timeout that came when one iteration was complete.
TimeoutStopsWorkWitness ==
    /\ hist.tmo.seen /\ pc = "idle" /\ hist.last = "optimize"
    /\ iter >= 1
    /\ calls > Tracked(algo, params)

\* C5: after initialize() and one optimize() of DE, the iteration count of the
\* result is the number of iterations that ran, len(convergence_curve) - 1, both
\* when the loop ran out and when the timeout check at the top of an iteration fired.
DEIterationsMatchCurve ==
    (algo = "DE" /\ pc = "idle" /\ hist.last = "optimize" /\ hist.inits = 1 /\ hist.opts = 1)
        => result = Len(curve) - 1

\* C6: when SA's clock first reports the deadline passed after the first proposal
\* step of the first temperature level (steps per level >= 2), optimize() returns
\* with no level recorded: the curve and the temperature history hold their
\* initial entry only and the temperature is still the initial one.
SATimeoutRecordsNoLevel ==
    (/\ algo = "SA" /\ pc = "idle" /\ hist.last = "optimize"
     /\ hist.inits = 1 /\ hist.opts = 1
     /\ params.max_iterations >= 2
     /\ hist.tmo.seen /\ calls = 2)
        => /\ Len(curve) = 1
           /\ Len(sa.temperature_history) = 1
           /\ sa.temperature = params.initial_temp

\* C7: after any initialize(), the first or a later one, the convergence curve
\* holds exactly one point, the best fitness of the candidates just drawn.
InitializeResetsCurve ==
    (pc = "idle" /\ hist.last = "initialize")
        => /\ Len(curve) = 1
           /\ curve[1] = bestFit

\* _validate_parameters of the engine a.
ParametersAccepted(a, q) ==
    CASE a = "PSO"  -> PSO_validate_parameters(q)
      [] a = "GA"   -> GA_validate_parameters(q)
      [] a = "DE"   -> DE_validate_parameters(q)
      [] a = "ACOR" -> ACOR_validate_parameters(q)
      [] a = "SA"   -> SA_validate_parameters(q)

\* C8: parameters are validated at construction: every engine object that exists
\* has parameters its own validation accepts, and a validation error is raised by
\* the constructor only, never by initialize() or optimize().
ValidatedAtConstruction ==
    /\ pc \notin {"new", "rejected"} => ParametersAccepted(algo, params)
    /\ err = "ValueError" => pc = "rejected"

\* C9: every engine rejects a problem of more than 50 dimensions at construction,
\* and no engine runs its optimization loop with max_iterations above 100.
PlatformCeilingsEnforced ==
    /\ (pc # "new" /\ problem.dimensions > MAX_DIMENSIONS) => pc = "rejected"
    /\ pc \in {"loop", "eval", "level", "step"} => params.max_iterations <= MAX_ITERATIONS

\* C10: whenever a validation error is raised, by a constructor or by SA's
\* initialize(), the fitness function has not been called even once.
ValidationBeforeEvaluation == err = "ValueError" => calls = 0

\* SA was constructed with initial_temp <= final_temp and initialize() rejected it.
ValidationBeforeEvaluationWitness ==
    /\ algo = "SA" /\ pc = "dead" /\ err = "ValueError"
    /\ params.initial_temp <= params.final_temp

IsPrefix(c, e) == Len(c) <= Len(e) /\ \A i \in 1..Len(c) : e[i] = c[i]

\* The states of one initialize() followed by one optimize() of PSO, GA, DE or ACOR.
InFirstOptimize ==
    /\ algo # "SA"
    /\ hist.inits = 1 /\ hist.opts = 1 /\ hist.last = "optimize"
    /\ pc \in {"loop", "eval", "idle"}

\* C11: for PSO, GA, DE and ACOR, during and after one initialize() and one
\* optimize() the curve has exactly 1 + n points, n the number of iterations whose
\* body ran, n <= max_iterations and n = max_iterations when no timeout occurred;
\* the last point is the best-so-far fitness; and within a search the curve only
\* grows at its end (existing points are never changed or removed).
CurveHasOnePointPerIteration ==
    /\ [](InFirstOptimize =>
            /\ Len(curve) = 1 + iter
            /\ iter <= params.max_iterations
            /\ (pc = "idle" /\ ~expired) => iter = params.max_iterations
            /\ pc \in {"loop", "idle"} => curve[Len(curve)] = bestFit)
    /\ [][(algo # "SA" /\ hist.inits = 1 /\ hist'.inits = 1) => IsPrefix(curve, curve')]_vars

\* All max_iterations = 2 iterations ran without a timeout: three points.
CurveHasOnePointPerIterationWitness ==
    /\ InFirstOptimize /\ pc = "idle" /\ ~expired
    /\ params.max_iterations = 2 /\ iter = 2
    /\ Len(curve) = 3

\* The next step of an instance that is alone in the process after np.random.seed(seed).
AloneStep(st) == IF st.pc = "done" THEN st ELSE SeededIterate(st, rng.seed, 0)

\* Such an instance after its initialize() and k further steps.
RECURSIVE AloneAfter(_)
AloneAfter(k) ==
    IF k = 0 THEN SeededInitialize(FreshTwin, rng.seed, 0) ELSE AloneStep(AloneAfter(k - 1))

\* The finished run of an instance that is alone in the process.
AloneRun == AloneAfter(IterCap + 2)

\* C12: when the steps of two instances were interleaved in one process seeded
\* once, each finished instance has the convergence curve and the best solution
\* of a run of that instance alone from the same seed.
InterleavingLeavesRunsUnchanged ==
    \A i \in 1..2 :
        (twin[i].pc = "done" /\ twin[i].mixed)
            => /\ twin[i].curve = AloneRun.curve
               /\ twin[i].best = AloneRun.best

ExecutorReturned ==
    /\ hist.inits = 1 /\ hist.opts = 1 /\ hist.last = "optimize"
    /\ pc = "idle" /\ err = "none"

\* The fields the executor formats from get_results(): best_fitness is the last
\* point of the curve and iterations_completed is len(convergence_curve).
ExecutorResult ==
    [best_solution |-> best,
     best_fitness |-> IF curve # <<>> THEN curve[Len(curve)] ELSE None,
     convergence_curve |-> curve,
     iterations_completed |-> Len(curve)]

\* C14: when the executor's run of an engine returns without a timeout,
\* iterations_completed is the number of iterations the engine completed, the
\* length of the curve less its initial point, which is max_iterations for PSO,
\* GA, DE and ACOR.
IterationsCompletedCountsIterations ==
    (ExecutorReturned /\ ~expired) =>
        /\ ExecutorResult.iterations_completed = Len(curve) - 1
        /\ algo # "SA" => ExecutorResult.iterations_completed = params.max_iterations

\* C15: no step of an engine (construction, initialize, optimize, get_results,
\* alone or as run by the executor) changes the problem dictionary or the
\* parameter dictionary it was given: self.problem and self.params are the
\* caller's objects and are only read.
CallerDictionariesUntouched == [][problem' = problem /\ params' = params]_vars

\* A full executor run on an accepted configuration has taken place.
CallerDictionariesUntouchedWitness ==
    /\ ExecutorReturned
    /\ calls > 0
    /\ params \in {DefaultParams(algo)} \cup OtherParams(algo)
    /\ problem \in GoodProblems

\* C16: PSO replaces a particle's personal best, and the global best, only when
\* the new fitness is strictly better under the objective, so a tie keeps the
\* stored position; with a constant fitness function no step after initialize()
\* changes the best solution, and every point of the curve is the one value.
StrictBestReplacement ==
    /\ [][(algo = "PSO" /\ initialized /\ hist'.inits = hist.inits) =>
            /\ \A i \in 1..Len(pbest) :
                    pbest'[i] # pbest[i] =>
                        IsBetter(problem.objective, pbestFit'[i], pbestFit[i])
            /\ best' # best => IsBetter(problem.objective, bestFit', bestFit)
            /\ problem.fn = "constant" => best' = best /\ pbest' = pbest]_vars
    /\ []((algo = "PSO" /\ problem.fn = "constant" /\ initialized) =>
            /\ \A k \in 1..Len(curve) : curve[k] = curve[1]
            /\ bestFit = curve[1])

\* Two iterations on the constant function: a particle has left its personal
\* best position, which was kept.
StrictBestReplacementWitness ==
    /\ algo = "PSO" /\ problem.fn = "constant"
    /\ ExecutorReturned /\ ~expired
    /\ iter = 2 /\ Len(curve) = 3
    /\ \E i \in 1..Len(pop) : pop[i] # pbest[i]
    /\ best = pbest[1]

AcceptanceRateIsFraction ==
    (algo = "SA" /\ initialized) =>
        /\ 0 <= sa.acceptance_count
        /\ sa.acceptance_count <= sa.total_worse_attempts
        /\ (pc = "idle" /\ hist.last = "optimize") =>
                /\ sa.acceptance_rate[2] > 0
                /\ 0 <= sa.acceptance_rate[1]
                /\ sa.acceptance_rate[1] <= sa.acceptance_rate[2]
                /\ sa.total_worse_attempts = 0 => sa.acceptance_rate[1] = 0
                /\ sa.total_worse_attempts > 0 =>
                        sa.acceptance_rate = <<sa.acceptance_count, sa.total_worse_attempts>>

\* A finished run in which some not-better candidates were accepted and some rejected.
AcceptanceRateIsFractionWitness ==
    /\ algo = "SA" /\ initialized
    /\ pc = "idle" /\ hist.last = "optimize" /\ ~expired
    /\ sa.acceptance_count > 0
    /\ sa.acceptance_count < sa.total_worse_attempts
    /\ sa.acceptance_rate = <<sa.acceptance_count, sa.total_worse_attempts>>

\* C19: in DE a step replaces population[i] and fitness_values[i] only for the
\* target of that step, only by a trial of that step, and only when the trial's
\* fitness is strictly better under the objective, so no individual's fitness
\* ever worsens; the vector and its fitness are replaced together in the step
\* that evaluated the trial, so the population the next target's mutant reads
\* already holds it.
GreedySelectionInPlace ==
    /\ [][(algo = "DE" /\ initialized /\ pc = "eval" /\ hist'.inits = hist.inits) =>
            \A i \in 1..Len(pop) :
                /\ ~IsBetter(problem.objective, fit[i], fit'[i])
                /\ (pop'[i] # pop[i] \/ fit'[i] # fit[i]) =>
                        /\ i = idx
                        /\ IsBetter(problem.objective, fit'[i], fit[i])
                        /\ pop'[i] \in Trials(i)
                        /\ fit'[i] = Evaluate(problem.fn, pop'[i]).val]_vars
    /\ []((algo = "DE" /\ initialized /\ pc \in {"loop", "eval", "idle"}) =>
            \A i \in 1..Len(pop) : fit[i] = Evaluate(problem.fn, pop[i]).val)

\* In the middle of an iteration an earlier target has already been replaced by
\* its trial, a new best: the population read for the current target holds it.
GreedySelectionInPlaceWitness ==
    /\ algo = "DE" /\ initialized /\ pc = "eval"
    /\ idx > 1
    /\ bestFit # curve[Len(curve)]
    /\ \E j \in 1..(idx - 1) : pop[j] = best /\ fit[j] = bestFit

\* C20: in DE every trial vector that can be evaluated for a target differs from
\* the target population[i] in at least one coordinate.  Stated for targets that
\* lie on the upper bound in every coordinate, where only a clipped trial can
\* have put them: the initial members are drawn from [lower, upper).
TrialDiffersFromTarget ==
    (/\ algo = "DE" /\ initialized /\ pc = "eval"
     /\ params.boundary_handling = "clip"
     /\ \A d \in Dims(problem) : pop[idx][d] = Upper(problem, d))
        => \A trial \in Trials(idx) : \E d \in Dims(problem) : trial[d] # pop[idx][d]

\* The value the 'reflect' policy is described to return for coordinate v: v
\* mirrored once across the bound it violates, the result clipped to [lo, hi].
MirroredOnceThenClipped(v, lo, hi) ==
    Clip(IF v < lo THEN lo + (lo - v) ELSE IF v > hi THEN hi - (v - hi) ELSE v, lo, hi)

\* C21: with boundary_handling 'reflect', _apply_boundary returns for every
\* coordinate of every mutant the value mirrored once across the violated bound
\* and then clipped.
ReflectMirrorsOnce ==
    (algo = "DE" /\ initialized /\ pc = "eval" /\ params.boundary_handling = "reflect") =>
        \A mutant \in Mutants(idx) : \A d \in Dims(problem) :
            ApplyBoundary(mutant)[d] = MirroredOnceThenClipped(mutant[d], Lower(problem, d), Upper(problem, d))

\* A population size for which the offspring loop overshoots and the trim acts.
BreedSize == 3

\* The children (first or second of a pair, bounded) the current generation can produce.
Children == {p[1] : p \in OffspringPairs} \cup {p[2] : p \in OffspringPairs}

BestSoFarOutlivesPopulation ==
    [][(algo = "GA" /\ initialized /\ pc = "loop" /\ pc' = "loop" /\ pop' # pop) =>
        LET current_best_idx == ArgBest(problem.objective, fit')
        IN /\ ~IsBetter(problem.objective, bestFit, bestFit')
           /\ (best' # best \/ bestFit' # bestFit) =>
                    /\ IsBetter(problem.objective, fit'[current_best_idx], bestFit)
                    /\ bestFit' = fit'[current_best_idx]
                    /\ best' = pop'[current_best_idx]
           /\ IsBetter(problem.objective, fit'[current_best_idx], bestFit) =>
                    bestFit' = fit'[current_best_idx]
           /\ pop' \in NewPopulations]_vars

\* The best-so-far is no longer in the population, whose best member is worse.
BestSoFarOutlivesPopulationWitness ==
    /\ algo = "GA" /\ initialized /\ pc \in {"loop", "idle"}
    /\ iter > 0
    /\ \A k \in 1..Len(pop) : pop[k] # best /\ IsBetter(problem.objective, bestFit, fit[k])

\* How often the value v occurs in the sequence f.
Occurrences(f, v) == Cardinality({k \in 1..Len(f) : f[k] = v})

\* C24: in ACOR the archive always holds exactly archive_size solutions with
\* their own fitness, sorted best-first; an iteration replaces it by the
\* archive_size best of the previous archive together with the new candidates
\* of the colony, so the fitness at every rank never worsens.
ArchiveKeepsTheBest ==
    /\ []((algo = "ACOR" /\ initialized /\ pc \in {"loop", "eval", "idle"}) =>
            /\ Len(pop) = Tracked("ACOR", params)
            /\ Len(fit) = Len(pop)
            /\ \A k \in 1..Len(pop) : fit[k] = Evaluate(problem.fn, pop[k]).val
            /\ \A k \in 1..(Len(fit) - 1) : ~IsBetter(problem.objective, fit[k + 1], fit[k]))
    /\ [][(algo = "ACOR" /\ initialized /\ pc = "eval" /\ pc' = "loop") =>
            LET combined == fit \o [k \in 1..Len(ants') |-> ants'[k].fitness]
                solutions == pop \o [k \in 1..Len(ants') |-> ants'[k].sol]
                n == Len(fit')
            IN /\ Len(ants') = Colony(params)
               /\ \A k \in 1..n : ~IsBetter(problem.objective, fit[k], fit'[k])
               /\ \A k \in 1..n : \E j \in 1..Len(combined) :
                        solutions[j] = pop'[k] /\ combined[j] = fit'[k]
               /\ \A j \in 1..Len(combined) :
                        /\ Occurrences(fit', combined[j]) <= Occurrences(combined, combined[j])
                        /\ IsBetter(problem.objective, combined[j], fit'[n]) =>
                                Occurrences(fit', combined[j]) = Occurrences(combined, combined[j])]_vars

\* An iteration has put a new candidate at the head of a two-member archive.
ArchiveKeepsTheBestWitness ==
    /\ algo = "ACOR" /\ initialized /\ pc = "loop"
    /\ hist.inits = 1 /\ iter = 1
    /\ Len(pop) = 2 /\ IsBetter(problem.objective, fit[1], fit[2])
    /\ \E a \in 1..Len(ants) : ants[a].sol = pop[1]
    /\ curve[2] # curve[1]

\* C25: in SA every proposal step leaves as best fitness the better of the
\* previous best and the candidate's fitness, and as best solution the candidate
\* exactly when it is strictly better than the previous best, whether the
\* candidate became the current solution or was rejected.
BestUpdatesIndependentlyOfAcceptance ==
    [][(algo = "SA" /\ initialized /\ pc = "step" /\ calls' = calls + 1 /\ pc' # "dead") =>
        \E neighbor \in Neighbors(pop[1]) : \E accepted \in BOOLEAN :
            LET neighbor_fitness == Evaluate(problem.fn, neighbor).val
                beats == IsBetter(problem.objective, neighbor_fitness, bestFit)
            IN /\ pop' = IF accepted THEN <<neighbor>> ELSE pop
               /\ fit' = IF accepted THEN <<neighbor_fitness>> ELSE fit
               /\ bestFit' = IF beats THEN neighbor_fitness ELSE bestFit
               /\ best' = IF beats THEN neighbor ELSE best]_vars

\* A worse candidate was accepted as the current solution and others rejected:
\* the best solution is no longer the current one.
BestUpdatesIndependentlyOfAcceptanceWitness ==
    /\ algo = "SA" /\ initialized /\ pc = "step"
    /\ IsBetter(problem.objective, bestFit, fit[1])
    /\ best # pop[1]
    /\ sa.acceptance_count > 0
    /\ sa.total_worse_attempts > sa.acceptance_count

GlobalBestIsBestPersonal ==
    /\ []((algo = "PSO" /\ initialized /\ pc \in {"idle", "loop", "eval"}) =>
            /\ bestFit = pbestFit[ArgBest(problem.objective, pbestFit)]
            /\ \E i \in 1..Len(pbest) : pbest[i] = best /\ pbestFit[i] = bestFit)
    /\ [][(algo = "PSO" /\ initialized /\ pc = "eval" /\ pc' # "dead") =>
            LET fitness == Evaluate(problem.fn, pop[idx]).val
            IN IsBetter(problem.objective, fitness, bestFit) =>
                    bestFit' = fitness /\ best' = pop[idx] /\ pbestFit'[idx] = fitness]_vars

\* An iteration has improved the global best while another particle's personal
\* best is worse.
GlobalBestIsBestPersonalWitness ==
    /\ algo = "PSO" /\ initialized /\ pc \in {"loop", "idle"}
    /\ hist.inits = 1 /\ iter > 0
    /\ bestFit # curve[1]
    /\ \E i \in 1..Len(pbestFit) : IsBetter(problem.objective, bestFit, pbestFit[i])

\* C28: in DE, after initialize() and after every target update, best_fitness is
\* the best value of fitness_values and best_individual is a member of the
\* current population with that fitness.
BestIsInPopulation ==
    (algo = "DE" /\ initialized /\ pc \in {"idle", "loop", "eval"}) =>
        /\ bestFit = fit[ArgBest(problem.objective, fit)]
        /\ \A i \in 1..Len(fit) : ~IsBetter(problem.objective, fit[i], bestFit)
        /\ \E i \in 1..Len(pop) : pop[i] = best /\ fit[i] = bestFit

\* An iteration has improved the best-so-far, which sits in the population
\* beside a worse member.
BestIsInPopulationWitness ==
    /\ algo = "DE" /\ initialized /\ pc \in {"loop", "idle"}
    /\ iter > 0
    /\ bestFit # curve[1]
    /\ \E i \in 1..Len(pop) : pop[i] = best
    /\ \E i \in 1..Len(fit) : IsBetter(problem.objective, bestFit, fit[i])

\* C29: in SA, in every state after initialize() the best fitness is at least as
\* good as the current fitness; a candidate strictly better than the best is
\* therefore strictly better than the current solution and is accepted with
\* certainty, and whenever a step changes the best solution the new best is the
\* new current solution (it is never a rejected candidate).
BestNeverWorseThanCurrent ==
    /\ []((algo = "SA" /\ initialized /\ pc \in {"idle", "level", "step"}) =>
            ~IsBetter(problem.objective, fit[1], bestFit))
    /\ []((algo = "SA" /\ initialized /\ pc = "step") =>
            \A neighbor \in Neighbors(pop[1]) :
                LET e == Evaluate(problem.fn, neighbor)
                IN (e.ok /\ IsBetter(problem.objective, e.val, bestFit)) =>
                        /\ IsBetter(problem.objective, e.val, fit[1])
                        /\ AcceptSolution(e.val, fit[1]) = {TRUE})
    /\ [][(algo = "SA" /\ initialized /\ pc = "step" /\ pc' # "dead"
            /\ (best' # best \/ bestFit' # bestFit)) =>
                pop' = <<best'>> /\ fit' = <<bestFit'>>]_vars

\* After optimize() the current solution is strictly worse than the best found
\* during the run.
BestNeverWorseThanCurrentWitness ==
    /\ algo = "SA" /\ initialized /\ pc = "idle" /\ hist.last = "optimize"
    /\ hist.inits = 1
    /\ IsBetter(problem.objective, bestFit, fit[1])
    /\ bestFit # curve[1]

\* C30: for every engine, whenever initialize() or optimize() has returned
\* normally the last point of the convergence curve is the engine's best fitness
\* and the fitness of its best solution, so the best_fitness the executor reads
\* from the end of the curve is the fitness of the best_solution it reports.
CurveEndsOnBestFitness ==
    (initialized /\ pc = "idle" /\ err = "none" /\ hist.last \in {"initialize", "optimize"}) =>
        /\ curve[Len(curve)] = bestFit
        /\ bestFit = Evaluate(problem.fn, best).val
        /\ ExecutorReturned =>
                ExecutorResult.best_fitness = Evaluate(problem.fn, ExecutorResult.best_solution).val

====
